---- MODULE Spec2Model ----
(***************************************************************************)
(* Model of the Mission Control dashboard client                           *)
(* (app/components/DashboardClient.tsx).                                   *)
(*                                                                         *)
(* The component's hook state cells are the variables; every event         *)
(* handler, effect and async continuation (the code between two awaits)    *)
(* is one action.  JavaScript runs each such segment to completion, so a   *)
(* segment is atomic.  A closure reads the state of the render it was      *)
(* created in: a handler started by a user event reads the state current   *)
(* at the event, an effect reads the state of the render that ran it.      *)
(* Effects that depend on a state cell run in the action that changes it.  *)
(*                                                                         *)
(* Strings the code inspects (titles, ids, session texts) are sequences of *)
(* one-character strings.  A request to the remote store resolves to a      *)
(* result or to an error value, it does not reject.                       *)
(***************************************************************************)
EXTENDS Integers, Sequences, FiniteSets, TLC

\* ------------------------------------------------------------------ bounds
MaxClock == 2       \* Date.now() ranges over 1..MaxClock
MaxTasks == 4       \* length of the task list
MaxCalls == 1       \* moveTask/addTask calls in flight at once
MaxMoveIdx == 1     \* board positions whose stage buttons are pressed
MaxOverlap == 2     \* moveTask calls in flight at once where calls overlap
MaxInFlight == 2    \* requests of one polling loop in flight at once
MaxSessions == 6    \* length of a session list given to withNicknames
MaxMissions == 2    \* rows the remote missions table holds
MaxNamed == 3       \* length of a session list with named sessions
MaxFeed == 3        \* length of the event list of the feed
MaxLeads == 2       \* length of the list of leads
MaxGuards == 2      \* runs of the gate's second effect in flight at once

\* ----------------------------------------------------------- basic values
Null == "null"

\* no session key: null, or the empty string, which the code treats alike
NoKey == <<>>
NoTime == 0 - 1     \* a null/absent timestamp
WS == "ws1"         \* the workspace id of the signed-in user's profile
USER == "u1"        \* the signed-in user's id

TaskStages == <<"inbox", "assigned", "in_progress", "review", "done">>
StageSet == {TaskStages[i] : i \in 1..Len(TaskStages)}
StatusSet == {"INBOX", "ASSIGNED", "IN_PROGRESS", "REVIEW", "DONE"}

taskStageToMissionStatus(stage) ==
  CASE stage = "inbox" -> "INBOX"
    [] stage = "assigned" -> "ASSIGNED"
    [] stage = "in_progress" -> "IN_PROGRESS"
    [] stage = "review" -> "REVIEW"
    [] stage = "done" -> "DONE"

missionStatusToTaskStageFolded(status) ==
  CASE status = "INBOX" -> "inbox"
    [] status = "ASSIGNED" -> "assigned"
    [] status = "IN_PROGRESS" -> "in_progress"
    [] status = "REVIEW" -> "in_progress"
    [] status = "DONE" -> "done"

missionStatusToTaskStage(status) ==
  CASE status = "INBOX" -> "inbox"
    [] status = "ASSIGNED" -> "assigned"
    [] status = "IN_PROGRESS" -> "in_progress"
    [] status = "REVIEW" -> "review"
    [] status = "DONE" -> "done"

\* ------------------------------------------------------- string functions
RECURSIVE TrimLeft(_)
TrimLeft(s) ==
  IF s = <<>> THEN s
  ELSE IF Head(s) = " " THEN TrimLeft(Tail(s)) ELSE s

RECURSIVE TrimRight(_)
TrimRight(s) ==
  IF s = <<>> THEN s
  ELSE IF s[Len(s)] = " " THEN TrimRight(SubSeq(s, 1, Len(s) - 1)) ELSE s

\* String.prototype.trim
Trim(s) == TrimRight(TrimLeft(s))

HexDigits == <<"0", "1", "2", "3", "4", "5", "6", "7",
               "8", "9", "a", "b", "c", "d", "e", "f">>

\* Number.prototype.toString(16) of a non-negative integer
RECURSIVE ToHex(_)
ToHex(n) ==
  IF n < 16 THEN <<HexDigits[n + 1]>>
  ELSE ToHex(n \div 16) \o <<HexDigits[(n % 16) + 1]>>

\* Math.random().toString(16).slice(2): the hex digits after "0.", none when
\* Math.random() returns 0
RandomFractions == {<<>>, <<"8">>}

uidNoTime(rnd, t) == rnd

uid(rnd, t) == rnd \o ToHex(t)

\* ------------------------------------------------------------------ state
VARIABLES
  phase,          \* "init" before the first effects ran, "mounted", "unmounted"
  now,            \* Date.now()
  profileId, workspaceId, dbError,         \* useState cells, lines 180-182
  tasks, newTask,                          \* useState cells, lines 185, 191
  leads, newLead,                          \* useState cells, lines 184, 187
  feedFilter,                              \* useState cell, line 176
  lsTasks,        \* localStorage entry "ov.tasks.v1"
  lsLeads,        \* localStorage entry "ov.pipeline.v1"
  missions,       \* remote table missions (rows of the workspace)
  boot,           \* the bootstrap effect's async function
  calls,          \* moveTask/addTask calls suspended at an await
  sessions, sessionsWithNames, selectedKey,
  statusText, statusError, events, eventsError,
  polls,          \* per effect, its requests in flight, oldest first
  timers,         \* which loop has a live setInterval timer
  gateway,        \* the sessions /api/oc/sessions reports
  last,           \* the code segment the last step ran
  fx,             \* the setter calls and requests that segment made, in order
  gate            \* AuthGate: its cells, its async functions, the auth session

vars == <<phase, now, profileId, workspaceId, dbError, tasks, newTask, lsTasks,
          missions, boot, calls, sessions, sessionsWithNames, selectedKey,
          statusText, statusError, events, eventsError, polls, timers,
          gateway, last, fx, leads, newLead, lsLeads, feedFilter, gate>>

leadVars == <<leads, newLead, lsLeads>>
taskVars == <<profileId, workspaceId, dbError, tasks, newTask, lsTasks,
              missions, boot, calls, leadVars>>
pollVars == <<sessions, sessionsWithNames, selectedKey, statusText,
              statusError, events, eventsError, polls, timers, gateway,
              feedFilter>>

\* ---------------------------------------------------------------- records
\* AuthGate (lines 10-67): the cells ready and authed, the first effect's
\* async function (check), the runs of the second effect's async function
\* (guards, each with the authed of its render), the session of the auth
\* client (the signed-in user's email, NoEmail without a session), the
\* value of NEXT_PUBLIC_ALLOWED_EMAIL (env) and the page shown (path)
NoEmail == <<>>

Gate(ready, authed, check, guards, session, env, path) ==
  [ready |-> ready, authed |-> authed, check |-> check, guards |-> guards,
   session |-> session, env |-> env, path |-> path]

\* the gate after both checks have let the user a in, no allow-list set
OpenGate == Gate(TRUE, TRUE, "done", <<>>, << "a" >>, <<>>, "/")

Task(id, title, stage, updatedAt) ==
  [id |-> id, title |-> title, stage |-> stage, updatedAt |-> updatedAt]

Row(id, title, status, updated_at, created_at) ==
  [id |-> id, title |-> title, status |-> status,
   updated_at |-> updated_at, created_at |-> created_at]

NoRow == Row(<<>>, <<>>, "INBOX", NoTime, NoTime)

\* A suspended moveTask or addTask call: its closure (id, stage, title,
\* prevTasks, ws, profile), the await it is suspended at (pc), the state of
\* the awaited missions request (st: sent, or the outcome the store gave) and
\* the row an insert returned (data).  origStage and origUpdatedAt record the
\* moved task as it was at the call.
Call(fn, pc, id, stage, title, prevTasks, ws, profile) ==
  [fn |-> fn, pc |-> pc, st |-> "sent", id |-> id, stage |-> stage,
   title |-> title, prevTasks |-> prevTasks, ws |-> ws, profile |-> profile,
   data |-> NoRow, origStage |-> stage, origUpdatedAt |-> NoTime]

NoCall == Call("none", "none", <<>>, "inbox", <<>>, <<>>, Null, Null)

\* A request of an effect: the effect's liveness flag (alive, or the negation
\* of cancelled), the workspace id or session key the effect closed over (ws,
\* key), the selectedKey its closure reads (sel), and for a missions select
\* the state of the request (st) and the rows the store returned (rows);
\* for a sessions fetch the gateway has answered, rows is the list it
\* reported.  passed records that the response of a request of the same
\* loop issued after this one has been committed already.
Poll(loop, ws, key, sel) ==
  [loop |-> loop, alive |-> TRUE, ws |-> ws, key |-> key, sel |-> sel,
   st |-> "sent", rows |-> <<>>, passed |-> FALSE]

NoPoll == [loop |-> "none", alive |-> FALSE, ws |-> Null, key |-> NoKey,
           sel |-> NoKey, st |-> "sent", rows |-> <<>>, passed |-> FALSE]

\* what a step keeps of the call or request it continued
Last(op, c, p) ==
  [op |-> op,
   c |-> [id |-> c.id, stage |-> c.stage, title |-> c.title, st |-> c.st,
          ws |-> c.ws, profile |-> c.profile, origStage |-> c.origStage,
          origUpdatedAt |-> c.origUpdatedAt],
   p |-> p]

RemoveAt(s, i) == SubSeq(s, 1, i - 1) \o SubSeq(s, i + 1, Len(s))

\* the requests of a loop after request j has resolved; when its response
\* was committed, the requests issued before it that the gateway has
\* answered already have been passed
Resolved(ps, j, committed) ==
  RemoveAt([i \in 1..Len(ps) |->
              IF committed /\ i < j /\ ps[i].st # "sent"
                THEN [ps[i] EXCEPT !.passed = TRUE]
                ELSE ps[i]], j)

ReplaceAt(s, i, x) == [s EXCEPT ![i] = x]

\* e instanceof Error ? e.message : fallback.  An error the remote store
\* returns is an Error instance carrying a message, or a plain object.
ErrorStates == {"errInst", "errObj"}
Outcomes == {"ok"} \cup ErrorStates
ErrorMessage(st, fallback) ==
  IF st = "errInst" THEN "permission denied" ELSE fallback

\* line 36-45: a lead of the pipeline (optional texts left out)
Lead(id, name, company, stage, updatedAt) ==
  [id |-> id, name |-> name, company |-> company, stage |-> stage,
   updatedAt |-> updatedAt]

\* JSON text of a number: its decimal digits
DecDigits == <<"0", "1", "2", "3", "4", "5", "6", "7", "8", "9">>

RECURSIVE ToDec(_)
ToDec(n) ==
  IF n < 10 THEN <<DecDigits[n + 1]>>
  ELSE ToDec(n \div 10) \o <<DecDigits[(n % 10) + 1]>>

DigitValue(d) == (CHOOSE k \in 1..Len(DecDigits) : DecDigits[k] = d) - 1

RECURSIVE FromDec(_)
FromDec(s) ==
  IF Len(s) = 1 THEN DigitValue(s[1])
  ELSE 10 * FromDec(SubSeq(s, 1, Len(s) - 1)) + DigitValue(s[Len(s)])

\* JSON.stringify of a task list (line 324): one object per task, strings
\* as they are, the number as its decimal text
Stringify(list) ==
  [i \in 1..Len(list) |->
     [id |-> list[i].id, title |-> list[i].title, stage |-> list[i].stage,
      updatedAt |-> ToDec(list[i].updatedAt)]]

\* JSON.parse with the entries in reverse order
ParseReversed(json) ==
  [i \in 1..Len(json) |->
     Task(json[Len(json) + 1 - i].id, json[Len(json) + 1 - i].title,
          json[Len(json) + 1 - i].stage,
          FromDec(json[Len(json) + 1 - i].updatedAt))]

\* JSON.parse of a stored task list (line 234)
Parse(json) ==
  [i \in 1..Len(json) |->
     Task(json[i].id, json[i].title, json[i].stage,
          FromDec(json[i].updatedAt))]

\* JSON.stringify of the leads (line 316) and JSON.parse (line 228)
StringifyLeads(list) ==
  [i \in 1..Len(list) |->
     [id |-> list[i].id, name |-> list[i].name, company |-> list[i].company,
      stage |-> list[i].stage, updatedAt |-> ToDec(list[i].updatedAt)]]

ParseLeads(json) ==
  [i \in 1..Len(json) |->
     Lead(json[i].id, json[i].name, json[i].company, json[i].stage,
          FromDec(json[i].updatedAt))]

\* What localStorage holds under "ov.tasks.v1": nothing (absent), a text
\* JSON.parse rejects (corrupt), or the JSON text of a task list (ok)
Stored(kind, list) == [kind |-> kind, list |-> Stringify(list)]

\* the same for "ov.pipeline.v1"
StoredLeads(kind, list) == [kind |-> kind, list |-> StringifyLeads(list)]

\* a persist effect that never writes
PersistedStale(t) == lsTasks

\* The persist effect (lines 322-328) runs after every render that changed
\* tasks; an unmounted component renders no more.
Persisted(t) == IF phase = "mounted" THEN Stored("ok", t) ELSE lsTasks

\* ------------------------------------------------------------- input sets
TitleInputs == {<< " " >>, << "a", " " >>}

\* the stage buttons pressed
MoveStages == {"review", "done"}

\* the three tasks seeded when nothing is stored (titles abbreviated)
SeedFractions == << <<"8">>, <<"4">>, <<"c">> >>
SeededTasks(t) ==
  << Task(uid(SeedFractions[1], t), <<"D">>, "in_progress", t),
     Task(uid(SeedFractions[2], t), <<"B">>, "assigned", t),
     Task(uid(SeedFractions[3], t), <<"M">>, "in_progress", t) >>

StoredInits ==
  { Stored("absent", <<>>),
    Stored("ok", << Task(<<"7", "1">>, <<"s">>, "review", 1) >>) }

RemoteInits ==
  { <<>>,
    << Row(<<"m", "1">>, <<"R">>, "ASSIGNED", NoTime, 1) >> }

Loops == {"sessions", "status", "events"}

Effects == Loops \cup {"missions"}

InFlight(loop) == Len(polls[loop])

\* --------------------------------------------------------------- initial
InitDashboard ==
  /\ phase = "init"
  /\ now = 1
  /\ profileId = Null /\ workspaceId = Null /\ dbError = ""
  /\ tasks = <<>> /\ newTask = <<>>
  /\ leads = <<>> /\ newLead = [name |-> <<>>, company |-> <<>>]
  /\ feedFilter = "all"
  /\ boot = [pc |-> "idle", cancelled |-> FALSE]
  /\ calls = <<>>
  /\ sessions = [isNull |-> TRUE, sessions |-> <<>>]
  /\ sessionsWithNames = <<>>
  /\ selectedKey = NoKey
  /\ statusText = "" /\ statusError = ""
  /\ events = <<>> /\ eventsError = ""
  /\ polls = [l \in Effects |-> <<>>]
  /\ timers = [l \in Loops |-> FALSE]
  /\ last = Last("init", NoCall, NoPoll)
  /\ fx = <<>>

\* the dashboard is rendered by a gate that has let a signed-in user in
InitCells == InitDashboard /\ gate = OpenGate

Init ==
  /\ InitCells
  /\ lsTasks \in StoredInits
  /\ lsLeads = StoredLeads("absent", <<>>)
  /\ missions \in RemoteInits
  /\ gateway = <<>>

\* ------------------------------------------------------------ mount effects
\* load effect, lines 226-231: a stored text is parsed; nothing stored, or
\* a text JSON.parse throws on, leaves the leads as they are
LoadLeads ==
  CASE lsLeads.kind = "ok" -> ParseLeads(lsLeads.list)
    [] OTHER -> leads

\* a load that seeds the board whenever no list could be read
LoadTasksSeedsOnCorrupt ==
  CASE lsTasks.kind = "ok" -> Parse(lsTasks.list)
    [] OTHER -> SeededTasks(now)

\* load effect, lines 232-270: a stored text is parsed; with nothing stored
\* the board is seeded; a text JSON.parse throws on leaves the tasks as
\* they are
LoadTasks ==
  CASE lsTasks.kind = "ok" -> Parse(lsTasks.list)
    [] lsTasks.kind = "absent" -> SeededTasks(now)
    [] OTHER -> tasks

\* an events effect without the guard of lines 480-484: it ticks at once
MountUnguarded ==
  /\ phase = "init"
  /\ phase' = "mounted"
  /\ UNCHANGED gate
  /\ boot' = [pc |-> "getUser", cancelled |-> FALSE]
  /\ tasks' = LoadTasks
  /\ lsTasks' = Stored("ok", tasks')
  /\ leads' = LoadLeads
  /\ lsLeads' = StoredLeads("ok", leads')
  /\ polls' = [polls EXCEPT
                 !["sessions"] = << Poll("sessions", Null, NoKey, selectedKey) >>,
                 !["events"] = << Poll("events", workspaceId, NoKey, NoKey) >>]
  /\ timers' = [timers EXCEPT !["sessions"] = TRUE, !["events"] = TRUE]
  /\ events' = <<>>
  /\ eventsError' = ""
  /\ last' = Last("mount", NoCall, NoPoll)
  /\ fx' = <<"setTasks", "fetch.sessions", "setEvents", "setEventsError">>
  /\ UNCHANGED <<now, profileId, workspaceId, dbError, newTask, missions,
                 calls, sessions, sessionsWithNames, selectedKey,
                 statusText, statusError, gateway, newLead, feedFilter>>

\* The effects of the first render, in source order: bootstrap (201),
\* load (225), missions fetch (274, no workspace yet), persist (314, 322;
\* they run again after the render with the loaded lists),
\* sessions loop (413), status loop (440, nothing selected), events (479).
Mount ==
  /\ phase = "init"
  /\ phase' = "mounted"
  /\ UNCHANGED gate
  /\ boot' = [pc |-> "getUser", cancelled |-> FALSE]
  /\ tasks' = LoadTasks
  /\ lsTasks' = Stored("ok", tasks')
  /\ leads' = LoadLeads
  /\ lsLeads' = StoredLeads("ok", leads')
  /\ polls' = [polls EXCEPT
                 !["sessions"] = << Poll("sessions", Null, NoKey, selectedKey) >>]
  /\ timers' = [timers EXCEPT !["sessions"] = TRUE]
  /\ events' = <<>>
  /\ eventsError' = "Waiting for workspace..."
  /\ last' = Last("mount", NoCall, NoPoll)
  /\ fx' = <<"setTasks", "fetch.sessions", "setEvents", "setEventsError">>
  /\ UNCHANGED <<now, profileId, workspaceId, dbError, newTask, missions,
                 calls, sessions, sessionsWithNames, selectedKey,
                 statusText, statusError, gateway, newLead, feedFilter>>

\* Every effect's cleanup: cancelled = true / alive = false, clearInterval
Unmount ==
  /\ phase = "mounted"
  /\ phase' = "unmounted"
  /\ UNCHANGED gate
  /\ boot' = [boot EXCEPT !.cancelled = TRUE]
  /\ polls' = [l \in Effects |->
                 [i \in 1..Len(polls[l]) |-> [polls[l][i] EXCEPT !.alive = FALSE]]]
  /\ timers' = [l \in Loops |-> FALSE]
  /\ last' = Last("unmount", NoCall, NoPoll)
  /\ fx' = <<>>
  /\ UNCHANGED <<now, profileId, workspaceId, dbError, tasks, newTask, lsTasks,
                 missions, calls, sessions, sessionsWithNames,
                 selectedKey, statusText, statusError, events, eventsError,
                 gateway>>
  /\ UNCHANGED leadVars
  /\ UNCHANGED feedFilter

ClockTick ==
  /\ now < MaxClock
  /\ now' = now + 1
  /\ UNCHANGED <<gate, phase, taskVars, pollVars, last, fx>>

\* ------------------------------------------------------ bootstrap effect
\* a bootstrap that looks the profile up without keeping the user's id
BootUserUnkept(hasUser) ==
  /\ boot.pc = "getUser"
  /\ IF hasUser /\ ~boot.cancelled
       THEN /\ boot' = [boot EXCEPT !.pc = "profile"]
            /\ fx' = <<"profiles.select">>
       ELSE /\ boot' = [boot EXCEPT !.pc = "done"]
            /\ fx' = <<>>
  /\ last' = Last("bootstrap.user", NoCall, NoPoll)
  /\ UNCHANGED <<gate, phase, now, profileId, workspaceId, dbError, tasks, newTask,
                 lsTasks, missions, calls, pollVars>>
  /\ UNCHANGED leadVars

\* lines 205-209: await supabase.auth.getUser()
BootUser(hasUser) ==
  /\ boot.pc = "getUser"
  /\ IF hasUser /\ ~boot.cancelled
       THEN /\ profileId' = USER
            /\ boot' = [boot EXCEPT !.pc = "profile"]
            /\ fx' = <<"setProfileId", "profiles.select">>
       ELSE /\ boot' = [boot EXCEPT !.pc = "done"]
            /\ fx' = <<>>
            /\ UNCHANGED profileId
  /\ last' = Last("bootstrap.user", NoCall, NoPoll)
  /\ UNCHANGED <<gate, phase, now, workspaceId, dbError, tasks, newTask, lsTasks,
                 missions, calls, pollVars>>
  /\ UNCHANGED leadVars

\* lines 210-219: the profile lookup resolves.  On success the effects keyed
\* on workspaceId run: the missions fetch (274-312) issues its select, the
\* events effect (479-535) makes its first tick and sets its interval.
BootProfile(outcome) ==
  /\ boot.pc = "profile"
  /\ boot' = [boot EXCEPT !.pc = "done"]
  /\ last' = Last("bootstrap.profile", NoCall, NoPoll)
  /\ CASE outcome \in ErrorStates ->
            /\ dbError' = ErrorMessage(outcome, "Supabase bootstrap failed")
            /\ fx' = <<"setDbError">>
            /\ UNCHANGED <<workspaceId, polls, timers, eventsError>>
       [] outcome = "noWorkspace" ->
            /\ dbError' = "Workspace not found for user"
            /\ fx' = <<"setDbError">>
            /\ UNCHANGED <<workspaceId, polls, timers, eventsError>>
       [] outcome = "ok" /\ boot.cancelled ->
            /\ fx' = <<>>
            /\ UNCHANGED <<workspaceId, dbError, polls, timers, eventsError>>
       [] outcome = "ok" /\ ~boot.cancelled ->
            /\ workspaceId' = WS
            /\ polls' = [polls EXCEPT
                 !["missions"] = Append(@, Poll("missions", WS, NoKey, NoKey)),
                 !["events"] = Append(@, Poll("events", WS, NoKey, NoKey))]
            /\ timers' = [timers EXCEPT !["events"] = TRUE]
            /\ eventsError' = ""
            /\ fx' = <<"setWorkspaceId", "missions.select", "setEventsError",
                       "events.select">>
            /\ UNCHANGED dbError
  /\ UNCHANGED <<gate, phase, now, profileId, tasks, newTask, lsTasks, missions,
                 calls, sessions, sessionsWithNames, selectedKey,
                 statusText, statusError, events, gateway>>
  /\ UNCHANGED leadVars
  /\ UNCHANGED feedFilter

\* ------------------------------------------------------------- input form
\* line 963: onChange of the title input
SetTitle(t) ==
  /\ phase = "mounted"
  /\ newTask # t
  /\ newTask' = t
  /\ last' = Last("setTitle", NoCall, NoPoll)
  /\ fx' = <<"setNewTask">>
  /\ UNCHANGED <<gate, phase, now, profileId, workspaceId, dbError, tasks, lsTasks,
                 missions, boot, calls, pollVars>>
  /\ UNCHANGED leadVars

\* ---------------------------------------------------------------- moveTask
\* line 555: prev.map((t) => t.id === id ? {...t, stage, updatedAt} : t)
MoveInList(ts, id, stage, t) ==
  [i \in 1..Len(ts) |->
     IF ts[i].id = id THEN [ts[i] EXCEPT !.stage = stage, !.updatedAt = t]
     ELSE ts[i]]

\* the closure of a moveTask call on the task at position i of the board
MoveTaskCall(i, stage) ==
  [Call("moveTask", "update", tasks[i].id, stage, <<>>, tasks, workspaceId,
        profileId)
     EXCEPT !.origStage = tasks[i].stage, !.origUpdatedAt = tasks[i].updatedAt]

MoveTaskNoGuard(i, stage) ==
  /\ phase = "mounted"
  /\ i \in 1..Len(tasks)
  /\ stage # tasks[i].stage
  /\ Len(calls) < MaxCalls
  /\ tasks' = MoveInList(tasks, tasks[i].id, stage, now)
  /\ lsTasks' = Persisted(tasks')
  /\ last' = Last("moveTask", MoveTaskCall(i, stage), NoPoll)
  /\ calls' = Append(calls, MoveTaskCall(i, stage))
  /\ fx' = <<"setTasks", "missions.update">>
  /\ UNCHANGED <<gate, phase, now, profileId, workspaceId, dbError, newTask,
                 missions, boot, pollVars>>
  /\ UNCHANGED leadVars

MoveTaskRemoteFirst(i, stage) ==
  /\ phase = "mounted"
  /\ i \in 1..Len(tasks)
  /\ stage # tasks[i].stage
  /\ Len(calls) < MaxCalls
  /\ last' = Last("moveTask", MoveTaskCall(i, stage), NoPoll)
  /\ IF workspaceId = Null
       THEN /\ tasks' = MoveInList(tasks, tasks[i].id, stage, now)
            /\ lsTasks' = Persisted(tasks')
            /\ fx' = <<"setTasks">>
            /\ UNCHANGED calls
       ELSE /\ calls' = Append(calls, MoveTaskCall(i, stage))
            /\ fx' = <<"missions.update">>
            /\ UNCHANGED <<tasks, lsTasks>>
  /\ UNCHANGED <<gate, phase, now, profileId, workspaceId, dbError, newTask,
                 missions, boot, pollVars>>
  /\ UNCHANGED leadVars

\* lines 552-561, up to the first await.  The board offers, for the task at
\* position i, a button for every stage but its own (line 1145).
MoveTaskAmong(i, stage, limit) ==
  /\ phase = "mounted"
  /\ i \in 1..Len(tasks)
  /\ stage # tasks[i].stage
  /\ Len(calls) < limit
  /\ tasks' = MoveInList(tasks, tasks[i].id, stage, now)
  /\ lsTasks' = Persisted(tasks')
  /\ last' = Last("moveTask", MoveTaskCall(i, stage), NoPoll)
  /\ IF workspaceId = Null
       THEN /\ fx' = <<"setTasks">>
            /\ UNCHANGED calls
       ELSE /\ calls' = Append(calls, MoveTaskCall(i, stage))
            /\ fx' = <<"setTasks", "missions.update">>
  /\ UNCHANGED <<gate, phase, now, profileId, workspaceId, dbError, newTask,
                 missions, boot, pollVars>>
  /\ UNCHANGED leadVars

\* moveTask with the calls in flight bounded by MaxCalls
MoveTask(i, stage) == MoveTaskAmong(i, stage, MaxCalls)

\* The remote store serves the update of line 561: the rows with this id get
\* the new status, or the store answers with an error.
UpdateRows(rows, id, status) ==
  [i \in 1..Len(rows) |->
     IF rows[i].id = id THEN [rows[i] EXCEPT !.status = status] ELSE rows[i]]

ServeUpdate(k, outcome) ==
  /\ k \in 1..Len(calls)
  /\ calls[k].pc = "update" /\ calls[k].st = "sent"
  /\ calls' = ReplaceAt(calls, k, [calls[k] EXCEPT !.st = outcome])
  /\ missions' = IF outcome = "ok"
                   THEN UpdateRows(missions, calls[k].id,
                                   taskStageToMissionStatus(calls[k].stage))
                   ELSE missions
  /\ UNCHANGED <<gate, phase, now, profileId, workspaceId, dbError, tasks, newTask,
                 lsTasks, boot, pollVars, last, fx>>
  /\ UNCHANGED leadVars

RollbackRestamp(c) == MoveInList(tasks, c.id, c.origStage, now)

\* line 576: setTasks(prevTasks)
Rollback(c) == c.prevTasks

\* lines 562-577: the continuation after the update resolved.  On success
\* the audit insert of lines 565-571 is issued; on an error the catch block
\* sets dbError and restores the task list.
MoveTaskUpdated(k) ==
  /\ k \in 1..Len(calls)
  /\ calls[k].pc = "update" /\ calls[k].st # "sent"
  /\ IF calls[k].st = "ok"
       THEN /\ calls' = ReplaceAt(calls, k,
                          [calls[k] EXCEPT !.pc = "audit", !.st = "sent"])
            /\ last' = Last("moveTask.updated", calls[k], NoPoll)
            /\ fx' = <<"events.insert">>
            /\ UNCHANGED <<dbError, tasks, lsTasks>>
       ELSE /\ calls' = RemoveAt(calls, k)
            /\ dbError' = ErrorMessage(calls[k].st, "Failed to update mission")
            /\ tasks' = Rollback(calls[k])
            /\ lsTasks' = Persisted(tasks')
            /\ last' = Last("moveTask.failed", calls[k], NoPoll)
            /\ fx' = <<"setDbError", "setTasks">>
  /\ UNCHANGED <<gate, phase, now, profileId, workspaceId, newTask, missions, boot,
                 pollVars>>
  /\ UNCHANGED leadVars

MoveTaskAuditedChecked(k, outcome) ==
  /\ k \in 1..Len(calls)
  /\ calls[k].pc = "audit"
  /\ calls' = RemoveAt(calls, k)
  /\ last' = Last("moveTask.audited", [calls[k] EXCEPT !.st = outcome], NoPoll)
  /\ IF outcome = "ok"
       THEN /\ fx' = <<>>
            /\ UNCHANGED <<dbError, tasks, lsTasks>>
       ELSE /\ dbError' = ErrorMessage(outcome, "Failed to update mission")
            /\ tasks' = Rollback(calls[k])
            /\ lsTasks' = Persisted(tasks')
            /\ fx' = <<"setDbError", "setTasks">>
  /\ UNCHANGED <<gate, phase, now, profileId, workspaceId, newTask, missions,
                 boot, pollVars>>
  /\ UNCHANGED leadVars

\* lines 565-571: the await of the audit insert resolves, to a result or to
\* an error value (the events table is not part of the state); neither is
\* read and the function returns.
MoveTaskAudited(k, outcome) ==
  /\ k \in 1..Len(calls)
  /\ calls[k].pc = "audit"
  /\ calls' = RemoveAt(calls, k)
  /\ last' = Last("moveTask.audited", [calls[k] EXCEPT !.st = outcome], NoPoll)
  /\ fx' = <<>>
  /\ UNCHANGED <<gate, phase, now, profileId, workspaceId, dbError, tasks, newTask,
                 lsTasks, missions, boot, pollVars>>
  /\ UNCHANGED leadVars

\* ----------------------------------------------------------------- addTask
\* new Date(row.updated_at || row.created_at || Date.now()).getTime()
RowTime(row, t) ==
  IF row.updated_at # NoTime THEN row.updated_at
  ELSE IF row.created_at # NoTime THEN row.created_at ELSE t

\* lines 660-671: the task of the local-only path
LocalTask(title, rnd) == Task(uid(rnd, now), title, "inbox", now)

AddTaskCall ==
  Call("addTask", "insert", <<>>, "inbox", Trim(newTask), <<>>, workspaceId,
       profileId)

AddTaskLocalFirst(rnd) ==
  /\ phase = "mounted"
  /\ Len(calls) < MaxCalls
  /\ Trim(newTask) # <<>>
  /\ Len(tasks) < MaxTasks
  /\ last' = Last("addTask", AddTaskCall, NoPoll)
  /\ tasks' = <<LocalTask(Trim(newTask), rnd)>> \o tasks
  /\ lsTasks' = Persisted(tasks')
  /\ newTask' = <<>>
  /\ IF workspaceId # Null /\ profileId # Null
       THEN /\ calls' = Append(calls, [AddTaskCall EXCEPT !.pc = "created"])
            /\ fx' = <<"setTasks", "setNewTask", "missions.insert">>
       ELSE /\ fx' = <<"setTasks", "setNewTask">>
            /\ UNCHANGED calls
  /\ UNCHANGED <<gate, phase, now, profileId, workspaceId, dbError, missions,
                 boot, pollVars>>
  /\ UNCHANGED leadVars

\* lines 604-627 and 660-672, up to the first await: an empty title returns;
\* with workspace and user the missions insert is issued; otherwise the task
\* is put first in the local list and the form is cleared.
AddTask(rnd) ==
  /\ phase = "mounted"
  /\ Len(calls) < MaxCalls
  /\ last' = Last("addTask", AddTaskCall, NoPoll)
  /\ CASE Trim(newTask) = <<>> ->
            /\ fx' = <<>>
            /\ UNCHANGED <<tasks, lsTasks, newTask, calls>>
       [] Trim(newTask) # <<>> /\ workspaceId # Null /\ profileId # Null ->
            /\ calls' = Append(calls, AddTaskCall)
            /\ fx' = <<"missions.insert">>
            /\ UNCHANGED <<tasks, lsTasks, newTask>>
       [] OTHER ->
            /\ Len(tasks) < MaxTasks
            /\ tasks' = <<LocalTask(Trim(newTask), rnd)>> \o tasks
            /\ lsTasks' = Persisted(tasks')
            /\ newTask' = <<>>
            /\ fx' = <<"setTasks", "setNewTask">>
            /\ UNCHANGED calls
  /\ UNCHANGED <<gate, phase, now, profileId, workspaceId, dbError, missions,
                 boot, pollVars>>
  /\ UNCHANGED leadVars

\* The remote store serves the insert of lines 616-627: it appends the row
\* under a new id with its timestamps and returns it, or answers an error.
NewRow(c) ==
  Row(<<"m">> \o ToHex(Len(missions) + 2), c.title, "INBOX", now, now)

ServeInsert(k, outcome) ==
  /\ k \in 1..Len(calls)
  /\ calls[k].pc = "insert" /\ calls[k].st = "sent"
  /\ outcome = "ok" => Len(missions) < MaxMissions
  /\ IF outcome = "ok"
       THEN /\ missions' = Append(missions, NewRow(calls[k]))
            /\ calls' = ReplaceAt(calls, k,
                 [calls[k] EXCEPT !.st = "ok", !.data = NewRow(calls[k]),
                                  !.id = NewRow(calls[k]).id])
       ELSE /\ calls' = ReplaceAt(calls, k, [calls[k] EXCEPT !.st = outcome])
            /\ UNCHANGED missions
  /\ UNCHANGED <<gate, phase, now, profileId, workspaceId, dbError, tasks, newTask,
                 lsTasks, boot, pollVars, last, fx>>
  /\ UNCHANGED leadVars

\* lines 629-672: the continuation after the insert resolved.  On success
\* the returned row is put first in the local list and the audit insert is
\* issued; on an error dbError is set and the local-only path of lines
\* 660-672 runs.
AddTaskInserted(k, rnd) ==
  /\ k \in 1..Len(calls)
  /\ calls[k].pc = "insert" /\ calls[k].st # "sent"
  /\ Len(tasks) < MaxTasks
  /\ IF calls[k].st = "ok"
       THEN /\ tasks' = << Task(calls[k].data.id, calls[k].data.title, "inbox",
                                RowTime(calls[k].data, now)) >> \o tasks
            /\ calls' = ReplaceAt(calls, k,
                          [calls[k] EXCEPT !.pc = "created", !.st = "sent"])
            /\ last' = Last("addTask.inserted", calls[k], NoPoll)
            /\ fx' = <<"setTasks", "events.insert">>
            /\ UNCHANGED <<dbError, newTask>>
       ELSE /\ dbError' = ErrorMessage(calls[k].st, "Failed to add mission")
            /\ tasks' = <<LocalTask(calls[k].title, rnd)>> \o tasks
            /\ newTask' = <<>>
            /\ calls' = RemoveAt(calls, k)
            /\ last' = Last("addTask.failed", calls[k], NoPoll)
            /\ fx' = <<"setDbError", "setTasks", "setNewTask">>
  /\ lsTasks' = Persisted(tasks')
  /\ UNCHANGED <<gate, phase, now, profileId, workspaceId, missions, boot, pollVars>>
  /\ UNCHANGED leadVars

\* an audit insert whose error reaches the catch block of line 655: the call
\* falls through to the local path of lines 660-672
AddTaskAuditedFallsBack(k, outcome) ==
  /\ k \in 1..Len(calls)
  /\ calls[k].pc = "created"
  /\ calls' = RemoveAt(calls, k)
  /\ newTask' = <<>>
  /\ last' = Last("addTask.audited", [calls[k] EXCEPT !.st = outcome], NoPoll)
  /\ IF outcome = "ok"
       THEN /\ fx' = <<"setNewTask">>
            /\ UNCHANGED <<dbError, tasks, lsTasks>>
       ELSE /\ Len(tasks) < MaxTasks
            /\ dbError' = ErrorMessage(outcome, "Failed to add mission")
            /\ tasks' = <<LocalTask(calls[k].title, << "8" >>)>> \o tasks
            /\ lsTasks' = Persisted(tasks')
            /\ fx' = <<"setDbError", "setTasks", "setNewTask">>
  /\ UNCHANGED <<gate, phase, now, profileId, workspaceId, missions, boot, pollVars>>
  /\ UNCHANGED leadVars

\* lines 644-653: the await of the audit insert resolves; the form is
\* cleared and the function returns.
AddTaskAudited(k, outcome) ==
  /\ k \in 1..Len(calls)
  /\ calls[k].pc = "created"
  /\ calls' = RemoveAt(calls, k)
  /\ newTask' = <<>>
  /\ last' = Last("addTask.audited", [calls[k] EXCEPT !.st = outcome], NoPoll)
  /\ fx' = <<"setNewTask">>
  /\ UNCHANGED <<gate, phase, now, profileId, workspaceId, dbError, tasks, lsTasks,
                 missions, boot, pollVars>>
  /\ UNCHANGED leadVars

\* ------------------------------------------------- missions fetch effect
\* The positions of keys in descending order of key, equal keys in their
\* given order (a stable sort, as Array.prototype.sort and ORDER BY give).
RECURSIVE SortPerm(_)
\* a sort that is not stable: of two equal keys the later one comes first
SortPermTiesReversed(keys) ==
  IF keys = <<>> THEN <<>>
  ELSE LET n == Len(keys)
           prev == SortPerm(SubSeq(keys, 1, n - 1))
           pos == Cardinality({j \in 1..(n - 1) : keys[prev[j]] > keys[n]})
       IN SubSeq(prev, 1, pos) \o <<n>> \o SubSeq(prev, pos + 1, n - 1)

SortPerm(keys) ==
  IF keys = <<>> THEN <<>>
  ELSE LET n == Len(keys)
           prev == SortPerm(SubSeq(keys, 1, n - 1))
           pos == Cardinality({j \in 1..(n - 1) : keys[prev[j]] >= keys[n]})
       IN SubSeq(prev, 1, pos) \o <<n>> \o SubSeq(prev, pos + 1, n - 1)

SortedDesc(s, keys) == [i \in 1..Len(s) |-> s[SortPerm(keys)[i]]]

\* .order('updated_at', { ascending: false }): null timestamps come first
OrderKey(row) == IF row.updated_at = NoTime THEN MaxClock + 1 ELSE row.updated_at

MissionsSelect ==
  SortedDesc(missions, [i \in 1..Len(missions) |-> OrderKey(missions[i])])

\* The remote store serves the select of lines 279-283: the rows of the
\* workspace as they are now, or an error.
ServeSelect(j, outcome) ==
  /\ j \in 1..Len(polls["missions"])
  /\ polls["missions"][j].st = "sent"
  /\ polls' = [polls EXCEPT !["missions"] = ReplaceAt(@, j,
       [polls["missions"][j] EXCEPT !.st = outcome,
                        !.rows = IF outcome = "ok" THEN MissionsSelect
                                 ELSE <<>>])]
  /\ UNCHANGED <<gate, phase, now, taskVars, sessions, sessionsWithNames,
                 selectedKey, statusText, statusError, events, eventsError,
                 timers, gateway, last, fx>>
  /\ UNCHANGED feedFilter

LoadedMerged(rows) ==
  [i \in 1..Len(rows) |->
     Task(rows[i].id, rows[i].title, missionStatusToTaskStage(rows[i].status),
          RowTime(rows[i], now))] \o tasks

\* lines 296-304: each fetched row as a task
Loaded(rows) ==
  [i \in 1..Len(rows) |->
     Task(rows[i].id, rows[i].title, missionStatusToTaskStage(rows[i].status),
          RowTime(rows[i], now))]

\* lines 284-309: the continuation after the select resolved.  The result
\* is committed if the effect was not cancelled (line 305); the catch block
\* sets dbError (line 308).
MissionsFetched(j) ==
  /\ j \in 1..Len(polls["missions"])
  /\ polls["missions"][j].st # "sent"
  /\ polls' = [polls EXCEPT !["missions"] = RemoveAt(@, j)]
  /\ last' = Last("missions.fetched", NoCall, polls["missions"][j])
  /\ CASE polls["missions"][j].st = "ok" /\ polls["missions"][j].alive ->
            /\ tasks' = Loaded(polls["missions"][j].rows)
            /\ lsTasks' = Persisted(tasks')
            /\ fx' = <<"setTasks">>
            /\ UNCHANGED dbError
       [] polls["missions"][j].st = "ok" /\ ~polls["missions"][j].alive ->
            /\ fx' = <<>>
            /\ UNCHANGED <<tasks, lsTasks, dbError>>
       [] OTHER ->
            /\ dbError' = ErrorMessage(polls["missions"][j].st, "Failed to load missions")
            /\ fx' = <<"setDbError">>
            /\ UNCHANGED <<tasks, lsTasks>>
  /\ UNCHANGED <<gate, phase, now, profileId, workspaceId, newTask, missions,
                 boot, calls, sessions, sessionsWithNames,
                 selectedKey, statusText, statusError, events, eventsError,
                 timers, gateway>>
  /\ UNCHANGED leadVars
  /\ UNCHANGED feedFilter

\* --------------------------------------------------------------- nicknames
\* line 29, each name as its sequence of characters
AGENT_NICKNAMES ==
  << <<"O", "r", "b", "i", "t">>, <<"F", "o", "r", "g", "e">>,
     <<"P", "u", "l", "s", "e">>, <<"S", "c", "o", "u", "t">>,
     <<"L", "e", "d", "g", "e", "r">> >>

\* the placeholder of line 150
Agent == <<"A", "g", "e", "n", "t">>

\* no nickname: null of guessNickname, undefined of Map.get
NoNick == <<>>

Upper == <<"A", "B", "C", "D", "E", "F", "G", "H", "I", "J", "K", "L", "M",
           "N", "O", "P", "Q", "R", "S", "T", "U", "V", "W", "X", "Y", "Z">>
Lower == <<"a", "b", "c", "d", "e", "f", "g", "h", "i", "j", "k", "l", "m",
           "n", "o", "p", "q", "r", "s", "t", "u", "v", "w", "x", "y", "z">>

\* String.prototype.toLowerCase
ToLowerCase(s) ==
  [i \in 1..Len(s) |->
     IF \E u \in 1..Len(Upper) : Upper[u] = s[i]
       THEN Lower[CHOOSE u \in 1..Len(Upper) : Upper[u] = s[i]]
       ELSE s[i]]

\* String.prototype.includes
Includes(hay, needle) ==
  \E i \in 0..(Len(hay) - Len(needle)) :
    SubSeq(hay, i + 1, i + Len(needle)) = needle

Session(key, displayName, label, sessionId, updatedAt) ==
  [key |-> key, displayName |-> displayName, label |-> label,
   sessionId |-> sessionId, updatedAt |-> updatedAt]

\* lines 122-128
guessNickname(s) ==
  LET hay == ToLowerCase(s.displayName \o <<" ">> \o s.label \o <<" ">>
                         \o s.sessionId)
      hits == {n \in 1..Len(AGENT_NICKNAMES) :
                 Includes(hay, ToLowerCase(AGENT_NICKNAMES[n]))}
  IN IF hits = {} THEN NoNick
     ELSE AGENT_NICKNAMES[CHOOSE n \in hits : \A m \in hits : n <= m]

NickAtNoWrap(i) ==
  IF i < Len(AGENT_NICKNAMES) THEN AGENT_NICKNAMES[i + 1] ELSE NoNick

\* line 146: AGENT_NICKNAMES[i % AGENT_NICKNAMES.length]
NickAt(i) == AGENT_NICKNAMES[(i % Len(AGENT_NICKNAMES)) + 1]

\* lines 137-140: the map after the explicit pass; a later session of the
\* same key overwrites an earlier one
ExplicitMap(ss) ==
  [k \in {ss[i].key : i \in 1..Len(ss)} |->
     LET hits == {i \in 1..Len(ss) :
                    ss[i].key = k /\ guessNickname(ss[i]) # NoNick}
     IN IF hits = {} THEN NoNick
        ELSE guessNickname(ss[CHOOSE i \in hits : \A h \in hits : h <= i])]

RECURSIVE RecencyFillOverwrites(_, _, _)
RecencyFillOverwrites(sorted, map, i) ==
  IF sorted = <<>> THEN map
  ELSE RecencyFillOverwrites(Tail(sorted),
                             [map EXCEPT ![Head(sorted).key] = NickAt(i)],
                             i + 1)

RECURSIVE RecencyFillSkipsClaimed(_, _, _)
RecencyFillSkipsClaimed(sorted, map, i) ==
  IF sorted = <<>> THEN map
  ELSE IF map[Head(sorted).key] # NoNick
         THEN RecencyFillSkipsClaimed(Tail(sorted), map, i)
         ELSE LET taken == {map[k] : k \in DOMAIN map}
                  free == {j \in i..(i + Len(AGENT_NICKNAMES)) :
                             NickAt(j) \notin taken}
                  j == IF free = {} THEN i
                       ELSE CHOOSE f \in free : \A h \in free : f <= h
              IN RecencyFillSkipsClaimed(Tail(sorted),
                   [map EXCEPT ![Head(sorted).key] = NickAt(j)], j + 1)

\* lines 143-148: the recency fill over the sorted list
RECURSIVE RecencyFill(_, _, _)
RecencyFill(sorted, map, i) ==
  IF sorted = <<>> THEN map
  ELSE IF map[Head(sorted).key] # NoNick
         THEN RecencyFill(Tail(sorted), map, i)
         ELSE RecencyFill(Tail(sorted),
                          [map EXCEPT ![Head(sorted).key] = NickAt(i)], i + 1)

\* lines 130-151
withNicknames(ss) ==
  LET sorted == SortedDesc(ss, [i \in 1..Len(ss) |->
                    IF ss[i].updatedAt = NoTime THEN 0 ELSE ss[i].updatedAt])
      map == RecencyFill(sorted, ExplicitMap(ss), 0)
  IN [i \in 1..Len(ss) |->
        [key |-> ss[i].key, displayName |-> ss[i].displayName,
         label |-> ss[i].label, sessionId |-> ss[i].sessionId,
         updatedAt |-> ss[i].updatedAt,
         nickname |-> IF map[ss[i].key] = NoNick THEN Agent
                      ELSE map[ss[i].key]]]

\* Sessions the gateway may report at position i of its list: without a
\* name and without updatedAt, without a name and updated at i, with a pool
\* name in upper case in its label or in its session id, and one that shares
\* the key of the first.
SessionShapes == {"plain", "timed", "named", "dup"}
SessionAt(i, shape) ==
  CASE shape = "plain" ->
         Session(<<"k">> \o ToHex(i), <<>>, <<>>, <<"s">> \o ToHex(i), NoTime)
    [] shape = "timed" ->
         Session(<<"k">> \o ToHex(i), <<"b", "o", "t">>, <<>>,
                 <<"s">> \o ToHex(i), i)
    [] shape = "named" ->
         IF i % 2 = 1
           THEN Session(<<"k">> \o ToHex(i), <<>>,
                        <<"a", " ", "F", "O", "R", "G", "E">>,
                        <<"s">> \o ToHex(i), 1)
           ELSE Session(<<"k">> \o ToHex(i), <<>>, <<>>,
                        <<"s", "c", "o", "u", "t", "s">> \o ToHex(i), NoTime)
    [] OTHER ->
         Session(<<"k", "1">>, <<>>, <<>>, <<"s">> \o ToHex(i), 2)

SessionLists(n) ==
  {[i \in 1..n |-> SessionAt(i, f[i])] : f \in [1..n -> SessionShapes]}

NickLists == UNION {SessionLists(n) : n \in 0..MaxSessions}

\* the lists the gateway reports while the loops are observed
PollLists ==
  { << SessionAt(1, "plain") >>,
    << SessionAt(2, "timed"), SessionAt(1, "plain") >> }

\* ------------------------------------------------------------ polling loops
\* The status effect (lines 440-476) as it runs when selectedKey becomes
\* key: the cleanup of the previous instance clears its flag, the new
\* instance makes its first tickStatus.
StatusEffectPolls(ps, key) ==
  [i \in 1..Len(ps) |-> [ps[i] EXCEPT !.alive = FALSE]]
    \o << Poll("status", Null, key, NoKey) >>

\* a tick that waits for the request before it
TickBlocking ==
  /\ timers["sessions"]
  /\ InFlight("sessions") = 0
  /\ polls' = [polls EXCEPT
                 !["sessions"] = Append(@, Poll("sessions", Null, NoKey, NoKey))]
  /\ last' = Last("tick", NoCall, Poll("sessions", Null, NoKey, NoKey))
  /\ fx' = <<"fetch.sessions">>
  /\ UNCHANGED <<gate, phase, now, taskVars, sessions, sessionsWithNames,
                 selectedKey, statusText, statusError, events, eventsError,
                 timers, gateway>>
  /\ UNCHANGED feedFilter

\* the interval of the sessions effect fires: tick, lines 416-418.  The
\* effect has no dependencies, so tick reads the selectedKey of the first
\* render.
Tick ==
  /\ timers["sessions"]
  /\ InFlight("sessions") < MaxInFlight
  /\ polls' = [polls EXCEPT
                 !["sessions"] = Append(@, Poll("sessions", Null, NoKey, NoKey))]
  /\ last' = Last("tick", NoCall, Poll("sessions", Null, NoKey, NoKey))
  /\ fx' = <<"fetch.sessions">>
  /\ UNCHANGED <<gate, phase, now, taskVars, sessions, sessionsWithNames,
                 selectedKey, statusText, statusError, events, eventsError,
                 timers, gateway>>
  /\ UNCHANGED feedFilter

\* lines 419-427: the response of a sessions fetch arrives with ok true
\* ("ok"), with ok false ("notOk"), or fetch or json() throws ("throw")
FetchOutcomes == {"ok", "notOk", "throw"}

\* the list a sessions response carries: the list the gateway reported when
\* it answered, or for a request answered only now the list it holds now
Reported(p) == IF p.st = "sent" THEN gateway ELSE p.rows

\* line 418: the gateway answers a sessions request with the list it holds
ServeSessions(j) ==
  /\ j \in 1..Len(polls["sessions"])
  /\ polls["sessions"][j].st = "sent"
  /\ polls' = [polls EXCEPT !["sessions"][j].st = "ok",
                             !["sessions"][j].rows = gateway]
  /\ UNCHANGED <<gate, phase, now, taskVars, sessions, sessionsWithNames,
                 selectedKey, statusText, statusError, events, eventsError,
                 timers, gateway, last, fx>>
  /\ UNCHANGED feedFilter

\* a commit that is made only for the request issued last
SessionsFetchedLatestOnly(j, outcome) ==
  /\ j \in 1..Len(polls["sessions"])
  /\ last' = Last("sessions.fetched", NoCall,
                  [polls["sessions"][j] EXCEPT
                     !.st = outcome,
                     !.rows = IF outcome = "ok" THEN Reported(polls["sessions"][j])
                              ELSE <<>>])
  /\ polls' = [polls EXCEPT !["sessions"] = RemoveAt(@, j)]
  /\ IF polls["sessions"][j].alive /\ outcome = "ok" /\ j = Len(polls["sessions"])
       THEN /\ sessions' = [isNull |-> FALSE,
                             sessions |-> Reported(polls["sessions"][j])]
            /\ sessionsWithNames' = withNicknames(Reported(polls["sessions"][j]))
            /\ fx' = <<"setSessions">>
       ELSE /\ fx' = <<>>
            /\ UNCHANGED <<sessions, sessionsWithNames>>
  /\ UNCHANGED <<selectedKey, timers, statusError>>
  /\ UNCHANGED <<gate, phase, now, taskVars, statusText, events, eventsError,
                 gateway>>
  /\ UNCHANGED feedFilter

SessionsFetched(j, outcome) ==
  /\ j \in 1..Len(polls["sessions"])
  /\ last' = Last("sessions.fetched", NoCall,
                  [polls["sessions"][j] EXCEPT
                     !.st = outcome,
                     !.rows = IF outcome = "ok" THEN Reported(polls["sessions"][j])
                              ELSE <<>>])
  /\ IF polls["sessions"][j].alive /\ outcome = "ok"
       THEN /\ sessions' = [isNull |-> FALSE,
                             sessions |-> Reported(polls["sessions"][j])]
            /\ sessionsWithNames' = withNicknames(Reported(polls["sessions"][j]))
            /\ IF /\ polls["sessions"][j].sel = NoKey
                  /\ Reported(polls["sessions"][j]) # <<>>
                  /\ Reported(polls["sessions"][j])[1].key # NoKey
                  /\ Reported(polls["sessions"][j])[1].key # selectedKey
                 THEN /\ InFlight("status") < MaxInFlight
                      /\ selectedKey' = Reported(polls["sessions"][j])[1].key
                      /\ polls' = [polls EXCEPT
                           !["sessions"] = Resolved(@, j, TRUE),
                           !["status"] =
                              StatusEffectPolls(@, Reported(polls["sessions"][j])[1].key)]
                      /\ timers' = [timers EXCEPT !["status"] = TRUE]
                      /\ statusError' = ""
                      /\ fx' = <<"setSessions", "setSelectedKey",
                                 "setStatusError", "fetch.status">>
                 ELSE /\ polls' = [polls EXCEPT !["sessions"] = Resolved(@, j, TRUE)]
                      /\ fx' = IF /\ polls["sessions"][j].sel = NoKey
                                   /\ Reported(polls["sessions"][j]) # <<>>
                                   /\ Reported(polls["sessions"][j])[1].key # NoKey
                                 THEN <<"setSessions", "setSelectedKey">>
                                 ELSE <<"setSessions">>
                      /\ UNCHANGED <<selectedKey, timers, statusError>>
       ELSE /\ polls' = [polls EXCEPT !["sessions"] = Resolved(@, j, FALSE)]
            /\ fx' = <<>>
            /\ UNCHANGED <<sessions, sessionsWithNames, selectedKey, timers,
                           statusError>>
  /\ UNCHANGED <<gate, phase, now, taskVars, statusText, events, eventsError,
                 gateway>>
  /\ UNCHANGED feedFilter

\* lines 793, 938, 1362: the user selects one of the sessions shown
SelectKey(key) ==
  /\ phase = "mounted"
  /\ \E i \in 1..Len(sessionsWithNames) : sessionsWithNames[i].key = key
  /\ key # selectedKey
  /\ InFlight("status") < MaxInFlight
  /\ selectedKey' = key
  /\ polls' = [polls EXCEPT !["status"] = StatusEffectPolls(@, key)]
  /\ timers' = [timers EXCEPT !["status"] = TRUE]
  /\ statusError' = ""
  /\ last' = Last("selectKey", NoCall, NoPoll)
  /\ fx' = <<"setSelectedKey", "setStatusError", "fetch.status">>
  /\ UNCHANGED <<gate, phase, now, taskVars, sessions, sessionsWithNames,
                 statusText, events, eventsError, gateway>>
  /\ UNCHANGED feedFilter

\* the interval of the status effect fires: tickStatus, lines 445-450
TickStatus ==
  /\ timers["status"]
  /\ InFlight("status") < MaxInFlight
  /\ statusError' = ""
  /\ polls' = [polls EXCEPT
                 !["status"] = Append(@, Poll("status", Null, selectedKey, NoKey))]
  /\ last' = Last("tickStatus", NoCall, Poll("status", Null, selectedKey, NoKey))
  /\ fx' = <<"setStatusError", "fetch.status">>
  /\ UNCHANGED <<gate, phase, now, taskVars, sessions, sessionsWithNames,
                 selectedKey, statusText, events, eventsError, timers,
                 gateway>>
  /\ UNCHANGED feedFilter

StatusTexts == {"idle"}

\* lines 451-467: the response of a status fetch
StatusFetched(j, outcome, text) ==
  /\ j \in 1..Len(polls["status"])
  /\ polls' = [polls EXCEPT
                 !["status"] = RemoveAt(@, j)]
  /\ last' = Last("status.fetched", NoCall, [polls["status"][j] EXCEPT !.st = outcome])
  /\ CASE ~polls["status"][j].alive ->
            /\ fx' = <<>>
            /\ UNCHANGED <<statusText, statusError>>
       [] polls["status"][j].alive /\ outcome = "ok" ->
            /\ statusText' = text
            /\ fx' = <<"setStatusText">>
            /\ UNCHANGED statusError
       [] OTHER ->
            /\ statusText' = ""
            /\ statusError' = IF outcome = "notOk" THEN "Failed"
                              ELSE "TypeError: Failed to fetch"
            /\ fx' = <<"setStatusText", "setStatusError">>
  /\ UNCHANGED <<gate, phase, now, taskVars, sessions, sessionsWithNames,
                 selectedKey, events, eventsError, timers, gateway>>
  /\ UNCHANGED feedFilter

\* the interval of the events effect fires: tickMissionEvents, lines 494-502
TickMissionEvents ==
  /\ timers["events"]
  /\ InFlight("events") < MaxInFlight
  /\ eventsError' = ""
  /\ polls' = [polls EXCEPT
                 !["events"] = Append(@, Poll("events", workspaceId, NoKey, NoKey))]
  /\ last' = Last("tickMissionEvents", NoCall,
                  Poll("events", workspaceId, NoKey, NoKey))
  /\ fx' = <<"setEventsError", "events.select">>
  /\ UNCHANGED <<gate, phase, now, taskVars, sessions, sessionsWithNames,
                 selectedKey, statusText, statusError, events, timers,
                 gateway>>
  /\ UNCHANGED feedFilter

\* the types of the audit events the component itself inserts
MISSION_CREATED == <<"M", "I", "S", "S", "I", "O", "N", "_", "C",
                     "R", "E", "A", "T", "E", "D">>
STATUS_CHANGED == <<"S", "T", "A", "T", "U", "S", "_", "C", "H", "A",
                    "N", "G", "E", "D">>

\* lines 488-492
fmtMissionEvent(row) ==
  CASE row.type = MISSION_CREATED -> <<"Created mission: ", row.payload>>
    [] row.type = STATUS_CHANGED -> <<"Status changed -> ", row.payload>>
    [] OTHER -> <<row.type, ": ", row.payload>>

\* no tool reference: the tool property is undefined (or the empty string)
NoTool == <<>>

\* lines 21-27: a feed event (raw left out)
TranscriptEvent(ts, kind, text, tool) ==
  [ts |-> ts, kind |-> kind, text |-> text, tool |-> tool]

\* lines 507-519: a row of the events table as an event; no tool is set
MappedEvents(rows) ==
  [i \in 1..Len(rows) |->
     TranscriptEvent(rows[i].created_at, rows[i].type,
                     fmtMissionEvent(rows[i]), NoTool)]

\* the rows the events table may return for the workspace, newest first
EventRows ==
  { <<>>,
    << [type |-> MISSION_CREATED, payload |-> "a", created_at |-> 2],
       [type |-> STATUS_CHANGED, payload |-> "DONE", created_at |-> 1] >> }

EventsFetchedStops(j, outcome, rows) ==
  /\ j \in 1..Len(polls["events"])
  /\ polls' = [polls EXCEPT
                 !["events"] = RemoveAt(@, j)]
  /\ last' = Last("events.fetched", NoCall,
                  [polls["events"][j] EXCEPT
                     !.st = outcome,
                     !.rows = IF outcome = "ok" THEN rows ELSE <<>>])
  /\ timers' = IF polls["events"][j].alive /\ outcome # "ok"
                 THEN [timers EXCEPT !["events"] = FALSE] ELSE timers
  /\ CASE ~polls["events"][j].alive ->
            /\ fx' = <<>>
            /\ UNCHANGED <<events, eventsError>>
       [] polls["events"][j].alive /\ outcome = "ok" ->
            /\ events' = MappedEvents(rows)
            /\ fx' = <<"setEvents">>
            /\ UNCHANGED eventsError
       [] OTHER ->
            /\ events' = <<>>
            /\ eventsError' = ErrorMessage(outcome, "[object Object]")
            /\ fx' = <<"setEvents", "setEventsError", "clearInterval">>
  /\ UNCHANGED <<gate, phase, now, taskVars, sessions, sessionsWithNames,
                 selectedKey, statusText, statusError, gateway>>
  /\ UNCHANGED feedFilter

\* lines 504-526: the select of the events loop resolves
EventsFetched(j, outcome, rows) ==
  /\ j \in 1..Len(polls["events"])
  /\ polls' = [polls EXCEPT
                 !["events"] = RemoveAt(@, j)]
  /\ last' = Last("events.fetched", NoCall,
                  [polls["events"][j] EXCEPT
                     !.st = outcome,
                     !.rows = IF outcome = "ok" THEN rows ELSE <<>>])
  /\ CASE ~polls["events"][j].alive ->
            /\ fx' = <<>>
            /\ UNCHANGED <<events, eventsError>>
       [] polls["events"][j].alive /\ outcome = "ok" ->
            /\ events' = MappedEvents(rows)
            /\ fx' = <<"setEvents">>
            /\ UNCHANGED eventsError
       [] OTHER ->
            /\ events' = <<>>
            /\ eventsError' = ErrorMessage(outcome, "[object Object]")
            /\ fx' = <<"setEvents", "setEventsError">>
  /\ UNCHANGED <<gate, phase, now, taskVars, sessions, sessionsWithNames,
                 selectedKey, statusText, statusError, timers, gateway>>
  /\ UNCHANGED feedFilter

\* the gateway's session list changes
GatewayChange(list) ==
  /\ gateway # list
  /\ gateway' = list
  /\ UNCHANGED <<gate, phase, now, taskVars, sessions, sessionsWithNames,
                 selectedKey, statusText, statusError, events, eventsError,
                 polls, timers, last, fx>>
  /\ UNCHANGED feedFilter

\* ------------------------------------------------------------ the live feed
\* String.prototype.startsWith and endsWith
StartsWith(s, prefix) ==
  Len(prefix) <= Len(s) /\ SubSeq(s, 1, Len(prefix)) = prefix

EndsWith(s, suffix) ==
  Len(suffix) <= Len(s) /\ SubSeq(s, Len(s) - Len(suffix) + 1, Len(s)) = suffix

\* lines 338-347
isStatusKind(kind) ==
  LET k == ToLowerCase(kind)
  IN \/ k = <<"s", "e", "s", "s", "i", "o", "n">>
     \/ k = <<"s", "t", "a", "t", "u", "s">>
     \/ EndsWith(k, <<"_", "c", "h", "a", "n", "g", "e">>)
     \/ StartsWith(k, <<"m", "o", "d", "e", "l", "_">>)
     \/ StartsWith(k, <<"t", "h", "i", "n", "k", "i", "n", "g", "_">>)

classifyEventKindFirst(ev) ==
  LET kind == ToLowerCase(ev.kind)
      hasTool == ev.tool # NoTool
  IN IF kind = <<"m", "e", "s", "s", "a", "g", "e">> THEN "messages"
     ELSE IF Includes(kind, <<"d", "e", "c", "i", "s", "i", "o", "n">>) THEN "decisions"
     ELSE IF Includes(kind, <<"d", "o", "c">>) THEN "docs"
     ELSE IF isStatusKind(kind) THEN "status"
     ELSE IF hasTool \/ kind = <<"t", "o", "o", "l">> \/ kind = <<"t", "o", "o", "l", "_", "c", "a", "l", "l">> THEN "tools"
     ELSE "other"

\* lines 349-359
classifyEvent(ev) ==
  LET kind == ToLowerCase(ev.kind)
      hasTool == ev.tool # NoTool
  IN IF hasTool \/ kind = <<"t", "o", "o", "l">> \/ kind = <<"t", "o", "o", "l", "_", "c", "a", "l", "l">> THEN "tools"
     ELSE IF kind = <<"m", "e", "s", "s", "a", "g", "e">> THEN "messages"
     ELSE IF Includes(kind, <<"d", "e", "c", "i", "s", "i", "o", "n">>) THEN "decisions"
     ELSE IF Includes(kind, <<"d", "o", "c">>) THEN "docs"
     ELSE IF isStatusKind(kind) THEN "status"
     ELSE "other"

\* line 176: the feed filters
FeedFilters == {"all", "tools", "messages", "decisions", "docs", "status"}

\* lines 364-371: the loop over the events
RECURSIVE CountLoop(_, _)
CountLoop(evs, counts) ==
  IF evs = <<>> THEN counts
  ELSE LET c == classifyEvent(Head(evs))
       IN CountLoop(Tail(evs),
                    IF c \in {"tools", "messages", "decisions", "docs", "status"}
                      THEN [counts EXCEPT ![c] = @ + 1]
                      ELSE counts)

feedCountsClassifiedOnly ==
  LET counts == CountLoop(events, [f \in FeedFilters |-> 0])
  IN [counts EXCEPT !["all"] =
        counts["tools"] + counts["messages"] + counts["decisions"]
          + counts["docs"] + counts["status"]]

\* lines 361-373
feedCounts ==
  CountLoop(events, [f \in FeedFilters |-> IF f = "all" THEN Len(events) ELSE 0])

\* lines 375-378
filteredEvents ==
  IF feedFilter = "all" THEN events
  ELSE SelectSeq(events, LAMBDA ev : classifyEvent(ev) = feedFilter)

\* lines 1334-1350: a filter pill is clicked
SetFeedFilter(f) ==
  /\ phase = "mounted"
  /\ f # feedFilter
  /\ feedFilter' = f
  /\ last' = Last("setFeedFilter", NoCall, NoPoll)
  /\ fx' = <<"setFeedFilter">>
  /\ UNCHANGED <<gate, phase, now, taskVars, sessions, sessionsWithNames,
                 selectedKey, statusText, statusError, events, eventsError,
                 polls, timers, gateway>>

UserFilters == \E f \in FeedFilters : SetFeedFilter(f)

\* The events classifyEvent is given: kinds of every rule in lower, upper
\* and mixed case, with and without a tool reference.
FeedEvents ==
  { TranscriptEvent(1, <<"t", "o", "o", "l", "_", "c", "a", "l", "l">>, <<>>, NoTool),
    TranscriptEvent(1, <<"m", "e", "s", "s", "a", "g", "e">>, <<>>, NoTool),
    TranscriptEvent(1, <<"s", "t", "a", "t", "u", "s">>, <<>>, NoTool),
    TranscriptEvent(1, <<"d", "e", "c", "i", "s", "i", "o", "n">>, <<>>, <<"x">>),
    TranscriptEvent(1, <<"D", "e", "c", "i", "s", "i", "o", "n", "_", "D", "o", "c">>, <<>>, NoTool),
    TranscriptEvent(1, <<"d", "o", "c", "s">>, <<>>, NoTool),
    TranscriptEvent(1, <<"t", "h", "i", "n", "k", "i", "n", "g", "_", "o", "n">>, <<>>, NoTool),
    TranscriptEvent(1, <<"s", "t", "a", "t", "e", "_", "c", "h", "a", "n", "g", "e">>, <<>>, NoTool),
    TranscriptEvent(1, STATUS_CHANGED, <<>>, NoTool),
    TranscriptEvent(1, <<"T", "O", "O", "L">>, <<>>, NoTool),
    TranscriptEvent(1, <<"m", "e", "s", "s", "a", "g", "e">>, <<>>, <<"x">>),
    TranscriptEvent(1, <<>>, <<>>, NoTool) }

FeedLists ==
  UNION {[1..n -> FeedEvents] : n \in 0..MaxFeed}

\* the component showing a feed
InitFeed ==
  /\ phase = "mounted"
  /\ gate = OpenGate
  /\ now = 1
  /\ profileId = Null /\ workspaceId = Null /\ dbError = ""
  /\ tasks = <<>> /\ newTask = <<>>
  /\ leads = <<>> /\ newLead = [name |-> <<>>, company |-> <<>>]
  /\ feedFilter = "all"
  /\ boot = [pc |-> "done", cancelled |-> FALSE]
  /\ calls = <<>>
  /\ sessions = [isNull |-> TRUE, sessions |-> <<>>]
  /\ sessionsWithNames = <<>>
  /\ selectedKey = NoKey
  /\ statusText = "" /\ statusError = ""
  /\ events \in FeedLists /\ eventsError = ""
  /\ polls = [l \in Effects |-> <<>>]
  /\ timers = [l \in Loops |-> FALSE]
  /\ last = Last("init", NoCall, NoPoll)
  /\ fx = <<>>
  /\ lsTasks = Stored("ok", <<>>)
  /\ lsLeads = StoredLeads("ok", <<>>)
  /\ missions = <<>>
  /\ gateway = <<>>

NextFeed == UserFilters

SpecFeed == InitFeed /\ [][NextFeed]_vars

\* ------------------------------------------------------------ the pipeline
\* line 34: LeadStage
LeadStages == {"lead", "qualified", "meeting", "proposal", "won", "lost"}

\* the stage buttons pressed on a lead
LeadMoveStages == {"qualified", "won"}

\* what is typed into the name and the company input
LeadInputs == {<< " " >>, << "n", " " >>}

\* the persist effect of lines 314-320, after a render that changed leads
PersistedLeads(l) == IF phase = "mounted" THEN StoredLeads("ok", l) ELSE lsLeads

\* lines 1186, 1192: onChange of the name and of the company input
SetNewLead(field, t) ==
  /\ phase = "mounted"
  /\ newLead[field] # t
  /\ newLead' = [newLead EXCEPT ![field] = t]
  /\ last' = Last("setNewLead", NoCall, NoPoll)
  /\ fx' = <<"setNewLead">>
  /\ UNCHANGED <<gate, phase, now, profileId, workspaceId, dbError, tasks, newTask,
                 lsTasks, missions, boot, calls, leads, lsLeads, pollVars>>

\* lines 588-600: the lead addLead puts first in the list
NewLead(name, company, rnd) == Lead(uid(rnd, now), name, company, "lead", now)

\* addLead that never looks at the company
AddLeadNameOnly(rnd) ==
  /\ phase = "mounted"
  /\ last' = Last("addLead", NoCall, NoPoll)
  /\ IF Trim(newLead.name) = <<>>
       THEN /\ fx' = <<>>
            /\ UNCHANGED <<leads, lsLeads, newLead>>
       ELSE /\ Len(leads) < MaxLeads
            /\ leads' = <<NewLead(Trim(newLead.name), Trim(newLead.company),
                                  rnd)>> \o leads
            /\ lsLeads' = PersistedLeads(leads')
            /\ newLead' = [name |-> <<>>, company |-> <<>>]
            /\ fx' = <<"setLeads", "setNewLead">>
  /\ UNCHANGED <<gate, phase, now, profileId, workspaceId, dbError, tasks, newTask,
                 lsTasks, missions, boot, calls, pollVars>>

\* lines 584-602: without a name or a company (after trim) addLead returns;
\* otherwise the lead is put first in the list and the form is cleared
AddLead(rnd) ==
  /\ phase = "mounted"
  /\ last' = Last("addLead", NoCall, NoPoll)
  /\ IF Trim(newLead.name) = <<>> \/ Trim(newLead.company) = <<>>
       THEN /\ fx' = <<>>
            /\ UNCHANGED <<leads, lsLeads, newLead>>
       ELSE /\ Len(leads) < MaxLeads
            /\ leads' = <<NewLead(Trim(newLead.name), Trim(newLead.company),
                                  rnd)>> \o leads
            /\ lsLeads' = PersistedLeads(leads')
            /\ newLead' = [name |-> <<>>, company |-> <<>>]
            /\ fx' = <<"setLeads", "setNewLead">>
  /\ UNCHANGED <<gate, phase, now, profileId, workspaceId, dbError, tasks, newTask,
                 lsTasks, missions, boot, calls, pollVars>>

\* line 581: prev.map((l) => l.id === id ? {...l, stage, updatedAt} : l)
MoveLeadInList(ls, id, stage, t) ==
  [i \in 1..Len(ls) |->
     IF ls[i].id = id THEN [ls[i] EXCEPT !.stage = stage, !.updatedAt = t]
     ELSE ls[i]]

\* lines 580-582, called from the stage buttons of lead i (line 1296: one
\* button per stage other than the lead's own)
MoveLead(i, stage) ==
  /\ phase = "mounted"
  /\ i \in 1..Len(leads)
  /\ stage # leads[i].stage
  /\ leads' = MoveLeadInList(leads, leads[i].id, stage, now)
  /\ lsLeads' = PersistedLeads(leads')
  /\ last' = Last("moveLead",
                  [NoCall EXCEPT !.id = leads[i].id, !.stage = stage], NoPoll)
  /\ fx' = <<"setLeads">>
  /\ UNCHANGED <<gate, phase, now, profileId, workspaceId, dbError, tasks, newTask,
                 lsTasks, missions, boot, calls, newLead, pollVars>>

\* ------------------------------------------------------------------ reload
\* The page is loaded again: the component is constructed anew and every
\* useState cell takes its initial value (lines 167-193).  localStorage, the
\* remote store and the gateway outlive the page; the requests of the old
\* page are dropped with it.
Restart ==
  /\ phase = "unmounted"
  /\ phase' = "init"
  /\ UNCHANGED gate
  /\ profileId' = Null /\ workspaceId' = Null /\ dbError' = ""
  /\ tasks' = <<>> /\ newTask' = <<>>
  /\ leads' = <<>> /\ newLead' = [name |-> <<>>, company |-> <<>>]
  /\ feedFilter' = "all"
  /\ boot' = [pc |-> "idle", cancelled |-> FALSE]
  /\ calls' = <<>>
  /\ sessions' = [isNull |-> TRUE, sessions |-> <<>>]
  /\ sessionsWithNames' = <<>>
  /\ selectedKey' = NoKey
  /\ statusText' = "" /\ statusError' = ""
  /\ events' = <<>> /\ eventsError' = ""
  /\ polls' = [l \in Effects |-> <<>>]
  /\ timers' = [l \in Loops |-> FALSE]
  /\ last' = Last("restart", NoCall, NoPoll)
  /\ fx' = <<>>
  /\ UNCHANGED <<now, lsTasks, lsLeads, missions, gateway>>

\* ----------------------------------------------------------- specifications
\* the environment's and the user's choices, one operator per step
Bootstrap ==
  \/ \E b \in BOOLEAN : BootUser(b)
  \/ \E o \in Outcomes \cup {"noWorkspace"} : BootProfile(o)

UserMoves == \E i \in 1..MaxMoveIdx, s \in MoveStages : MoveTask(i, s)

StoreUpdates == \E k \in 1..MaxCalls, o \in Outcomes : ServeUpdate(k, o)

MoveContinues == \E k \in 1..MaxCalls : MoveTaskUpdated(k)

MoveAudits == \E k \in 1..MaxCalls, o \in Outcomes : MoveTaskAudited(k, o)

UserTypes == \E t \in TitleInputs : SetTitle(t)

UserAdds == \E r \in RandomFractions : AddTask(r)

StoreInserts == \E k \in 1..MaxCalls, o \in Outcomes : ServeInsert(k, o)

AddContinues ==
  \E k \in 1..MaxCalls, r \in RandomFractions : AddTaskInserted(k, r)

AddAudits == \E k \in 1..MaxCalls, o \in Outcomes : AddTaskAudited(k, o)

StoreSelects == \E j \in 1..MaxInFlight, o \in Outcomes : ServeSelect(j, o)

FetchContinues == \E j \in 1..MaxInFlight : MissionsFetched(j)

GatewayAnswers == \E j \in 1..MaxInFlight : ServeSessions(j)

SessionsArrive ==
  \E j \in 1..MaxInFlight, o \in FetchOutcomes : SessionsFetched(j, o)

UserSelects == \E i \in 1..Len(sessionsWithNames) :
                 SelectKey(sessionsWithNames[i].key)

StatusArrives ==
  \E j \in 1..MaxInFlight, o \in FetchOutcomes, t \in StatusTexts :
    StatusFetched(j, o, t)

EventsArrive ==
  \E j \in 1..MaxInFlight, o \in Outcomes, rows \in EventRows :
    EventsFetched(j, o, rows)

GatewayChanges == \E l \in PollLists : GatewayChange(l)

UserTypesLead ==
  \E f \in {"name", "company"}, t \in LeadInputs : SetNewLead(f, t)

UserAddsLead == \E r \in RandomFractions : AddLead(r)

UserMovesLead == \E i \in 1..MaxLeads, s \in LeadMoveStages : MoveLead(i, s)

\* the whole program
Next ==
  \/ Mount \/ Unmount \/ ClockTick \/ Bootstrap
  \/ UserMoves \/ StoreUpdates \/ MoveContinues \/ MoveAudits
  \/ UserTypes \/ UserAdds \/ StoreInserts \/ AddContinues \/ AddAudits
  \/ StoreSelects \/ FetchContinues
  \/ Tick \/ SessionsArrive \/ UserSelects \/ TickStatus \/ StatusArrives
  \/ TickMissionEvents \/ EventsArrive \/ GatewayChanges
  \/ UserFilters \/ UserTypesLead \/ UserAddsLead \/ UserMovesLead \/ Restart
  \/ GatewayAnswers

Spec == Init /\ [][Next]_vars

\* moveTask against the remote store, with the missions fetch
NextMove ==
  \/ Mount \/ ClockTick \/ Bootstrap
  \/ UserMoves \/ StoreUpdates \/ MoveContinues \/ MoveAudits
  \/ StoreSelects \/ FetchContinues

SpecMove == Init /\ [][NextMove]_vars

\* addTask against the remote store
NextAdd ==
  \/ Mount \/ ClockTick \/ Bootstrap
  \/ UserTypes \/ UserAdds \/ StoreInserts \/ AddContinues \/ AddAudits

SpecAdd == Init /\ [][NextAdd]_vars

\* the missions fetch among addTask calls
NextFetch ==
  \/ Mount \/ ClockTick \/ Bootstrap
  \/ UserTypes \/ UserAdds \/ StoreInserts \/ AddContinues \/ AddAudits
  \/ StoreSelects \/ FetchContinues

SpecFetch == Init /\ [][NextFetch]_vars

\* every step that issues a request against the missions or the events
\* table; the events loop's responses are empty results
EventsDrain == \E j \in 1..MaxInFlight : EventsFetched(j, "ok", <<>>)

NextRemote ==
  \/ Mount \/ Bootstrap
  \/ UserMoves \/ StoreUpdates \/ MoveContinues \/ MoveAudits
  \/ UserTypes \/ UserAdds \/ StoreInserts \/ AddContinues \/ AddAudits
  \/ TickMissionEvents \/ EventsDrain

\* nothing stored (the board is seeded), a workspace with one mission
InitRemote ==
  /\ InitCells
  /\ lsTasks = Stored("absent", <<>>)
  /\ lsLeads = StoredLeads("absent", <<>>)
  /\ missions = << Row(<<"m", "1">>, <<"R">>, "ASSIGNED", NoTime, 1) >>
  /\ gateway = <<>>

SpecRemote == InitRemote /\ [][NextRemote]_vars

\* the fetch effects and their cancellation
InitPoll ==
  /\ InitCells
  /\ lsTasks = Stored("absent", <<>>)
  /\ lsLeads = StoredLeads("absent", <<>>)
  /\ missions = << Row(<<"m", "1">>, <<"R">>, "ASSIGNED", NoTime, 1) >>
  /\ gateway = << SessionAt(2, "timed"), SessionAt(1, "plain") >>

NextPoll ==
  \/ Mount \/ Unmount \/ Bootstrap
  \/ StoreSelects \/ FetchContinues
  \/ Tick \/ SessionsArrive \/ UserSelects \/ TickStatus \/ StatusArrives
  \/ TickMissionEvents \/ EventsArrive

SpecPoll == InitPoll /\ [][NextPoll]_vars

\* the three polling loops; an interval that stays set fires again
NextLoops ==
  \/ Mount \/ Unmount \/ Bootstrap
  \/ Tick \/ SessionsArrive \/ UserSelects \/ TickStatus \/ StatusArrives
  \/ TickMissionEvents \/ EventsArrive

SpecLoops ==
  /\ InitPoll /\ [][NextLoops]_vars
  /\ WF_vars(Tick) /\ WF_vars(TickStatus) /\ WF_vars(TickMissionEvents)

\* withNicknames on the lists the gateway may report
InitNick ==
  /\ InitCells
  /\ lsTasks = Stored("absent", <<>>)
  /\ lsLeads = StoredLeads("absent", <<>>)
  /\ missions = <<>>
  /\ gateway \in NickLists

NextNick == Mount \/ SessionsArrive

SpecNick == InitNick /\ [][NextNick]_vars

\* ------------------------------------------------------------------ claims
StageOf(ts, id) == {ts[i].stage : i \in {j \in 1..Len(ts) : ts[j].id = id}}
UpdatedAtOf(ts, id) == {ts[i].updatedAt : i \in {j \in 1..Len(ts) : ts[j].id = id}}

Made == {fx[i] : i \in 1..Len(fx)}
Before(a, b) == \A j \in 1..Len(fx) : fx[j] = b => \E i \in 1..(j - 1) : fx[i] = a

\* C1: when the remote update of a moveTask(id, B) call made with workspace
\* context fails, the state the call leaves has the task at its stage A of
\* before the call (not B), with the updatedAt it had then, and dbError holds
\* a non-empty string.
C1_RollbackRestoresTask ==
  last.op = "moveTask.failed" =>
    /\ last.c.ws # Null
    /\ StageOf(tasks, last.c.id) = {last.c.origStage}
    /\ last.c.stage \notin StageOf(tasks, last.c.id)
    /\ UpdatedAtOf(tasks, last.c.id) = {last.c.origUpdatedAt}
    /\ dbError # ""

C1_Witness ==
  /\ last.op = "moveTask.failed"
  /\ now > last.c.origUpdatedAt
  /\ StageOf(tasks, last.c.id) = {last.c.origStage}

\* C2: the first segment of every moveTask call sets the task to the new
\* stage in the local list, and issues the remote missions update, if at
\* all, only after that local update; without workspace context the local
\* update is made and no request is issued.
C2_MoveLocalBeforeRemote ==
  last.op = "moveTask" =>
    /\ StageOf(tasks, last.c.id) = {last.c.stage}
    /\ "setTasks" \in Made
    /\ Before("setTasks", "missions.update")
    /\ last.c.ws = Null => fx = <<"setTasks">>

C2_Witness ==
  /\ last.op = "moveTask"
  /\ last.c.ws # Null
  /\ Len(calls) > 0 /\ calls[Len(calls)].st = "sent"
  /\ fx = <<"setTasks", "missions.update">>

\* C3 as stated: the first segment of every addTask call with a non-empty
\* title puts the new task into the local list, and does so before it issues
\* the missions insert, also with workspace and user context.
C3_AddLocalBeforeRemote ==
  (last.op = "addTask" /\ last.c.title # <<>>) =>
    /\ "setTasks" \in Made
    /\ Before("setTasks", "missions.insert")

\* C3 amended: without workspace or user context addTask updates the local
\* list and issues no remote call; with both, its first segment issues the
\* missions insert and leaves the local list as it is, and the task enters
\* the local list only in the step that receives the insert's response (the
\* remote row on success, a local task on an error).
C3_AddRemoteFirstWithContext ==
  /\ []((last.op = "addTask" /\ last.c.title # <<>>) =>
          IF last.c.ws # Null /\ last.c.profile # Null
            THEN fx = <<"missions.insert">>
            ELSE fx = <<"setTasks", "setNewTask">>)
  /\ [][(last'.op = "addTask" /\ last'.c.ws # Null /\ last'.c.profile # Null)
          => tasks' = tasks]_vars
  /\ [](last.op \in {"addTask.inserted", "addTask.failed"} =>
          /\ Before("setTasks", "events.insert")
          /\ "setTasks" \in Made
          /\ tasks[1].title = last.c.title)

C3_Witness ==
  /\ last.op = "addTask.inserted"
  /\ last.c.ws # Null /\ last.c.profile # Null
  /\ tasks[1].id = last.c.id
  /\ \E r \in 1..Len(missions) : missions[r].id = tasks[1].id

\* C4: an addTask call with a non-empty trimmed title that has no workspace
\* or no user context, or whose missions insert returned an error, leaves at
\* the head of the local list a task at stage inbox with a non-empty id that
\* is no remote row's id and with the trimmed title; on the error path dbError
\* is non-empty.
C4_AddFallsBackToLocal ==
  ( \/ /\ last.op = "addTask" /\ last.c.title # <<>>
       /\ (last.c.ws = Null \/ last.c.profile = Null)
    \/ last.op = "addTask.failed" ) =>
    /\ Len(tasks) > 0
    /\ tasks[1].stage = "inbox"
    /\ tasks[1].id # <<>>
    /\ \A r \in 1..Len(missions) : missions[r].id # tasks[1].id
    /\ tasks[1].title = last.c.title
    /\ last.c.title # <<>> /\ last.c.title = Trim(last.c.title)
    /\ tasks[1].updatedAt \in 1..now
    /\ last.op = "addTask.failed" => (dbError # "" /\ last.c.st \in ErrorStates)

C4_Witness ==
  /\ last.op = "addTask.failed"
  /\ last.c.ws # Null /\ last.c.profile # Null
  /\ tasks[1].title = last.c.title
  /\ tasks[1].id = ToHex(now)
  /\ dbError # ""

\* C5: after a successful missions update moveTask issues the STATUS_CHANGED
\* audit insert, and the step that receives the audit insert's result, error
\* or not, changes neither the task list nor dbError.
C5_AuditIsBestEffort ==
  /\ [](last.op = "moveTask.updated" =>
          /\ fx = <<"events.insert">>
          /\ \E k \in 1..Len(calls) :
               calls[k].pc = "audit" /\ calls[k].id = last.c.id)
  /\ [][last'.op = "moveTask.audited" =>
          (tasks' = tasks /\ dbError' = dbError /\ lsTasks' = lsTasks)]_vars

C5_Witness ==
  /\ last.op = "moveTask.audited"
  /\ last.c.st \in ErrorStates
  /\ StageOf(tasks, last.c.id) = {last.c.stage}
  /\ \E r \in 1..Len(missions) :
       /\ missions[r].id = last.c.id
       /\ missions[r].status = taskStageToMissionStatus(last.c.stage)

RemoteOps == {"missions.select", "missions.update", "missions.insert",
              "events.select", "events.insert"}

\* C6: a step that issues a request against the missions or the events
\* table is taken with workspaceId set, and every such request in flight was
\* issued by code that had read a workspace id that is not null.
C6_RemoteNeedsWorkspace ==
  /\ Made \cap RemoteOps # {} => workspaceId # Null
  /\ \A k \in 1..Len(calls) : calls[k].ws # Null
  /\ \A l \in {"missions", "events"} :
       \A j \in 1..Len(polls[l]) : polls[l][j].ws # Null

C6_Witness ==
  /\ "events.insert" \in Made
  /\ workspaceId # Null
  /\ polls["events"] # <<>>
  /\ \E k \in 1..Len(calls) : calls[k].fn = "addTask"

\* C7: the step that commits a successful missions fetch leaves as local
\* list exactly the fetched rows, in their order, each with its status mapped
\* to the stage; no task the list held before remains unless a fetched row
\* has its id; the stored snapshot is that list.
C7_FetchReplacesList ==
  (last.op = "missions.fetched" /\ last.p.st = "ok" /\ last.p.alive) =>
    /\ Len(tasks) = Len(last.p.rows)
    /\ \A i \in 1..Len(tasks) :
         /\ tasks[i].id = last.p.rows[i].id
         /\ tasks[i].title = last.p.rows[i].title
         /\ taskStageToMissionStatus(tasks[i].stage) = last.p.rows[i].status
    /\ lsTasks = Stored("ok", tasks)

C7_Witness ==
  /\ last.op = "missions.fetched" /\ last.p.st = "ok" /\ last.p.alive
  /\ Len(last.p.rows) = 2
  /\ \E i \in 1..Len(tasks) : tasks[i].stage = "inbox"
  /\ \E i \in 1..Len(tasks) : tasks[i].stage = "assigned"
  /\ Len(missions) = 2

FetchedOps == {"missions.fetched", "sessions.fetched", "status.fetched",
               "events.fetched"}

\* C8 as stated: the step that receives the response or the failure of a
\* request whose effect was cancelled before calls no state setter.
C8_NoCommitAfterCancel ==
  (last.op \in FetchedOps /\ ~last.p.alive) => fx = <<>>

\* the sessions that can be selected
StatusKeys == {<<"k", "1">>, <<"k", "2">>}

\* C9: after a sessions fetch, a status fetch or an events fetch of a live
\* loop has failed (error result, response that is not ok, or exception),
\* that loop issues another fetch, unless the component unmounts or, for the
\* status loop, another session is selected.
C9_LoopsKeepTicking ==
  /\ (last.op = "sessions.fetched" /\ last.p.alive /\ last.p.st # "ok")
       ~> (last.op = "tick" \/ phase = "unmounted")
  /\ \A key \in StatusKeys :
       (last.op = "status.fetched" /\ last.p.alive /\ last.p.st # "ok"
          /\ last.p.key = key)
       ~> \/ last.op = "tickStatus" /\ last.p.key = key
          \/ phase = "unmounted"
          \/ selectedKey # key
  /\ (last.op = "events.fetched" /\ last.p.alive /\ last.p.st # "ok")
       ~> (last.op = "tickMissionEvents" \/ phase = "unmounted")

C9_Witness ==
  /\ last.op = "status.fetched"
  /\ last.p.alive /\ last.p.st = "throw"
  /\ last.p.key = selectedKey
  /\ statusError # ""
  /\ phase = "mounted"
  /\ timers["status"]
  /\ InFlight("status") < MaxInFlight

Pool == {AGENT_NICKNAMES[n] : n \in 1..Len(AGENT_NICKNAMES)}

\* C10: whatever list the gateway reports, withNicknames returns one entry
\* per session, in the list's order, each with a nickname that is one of the
\* five pool names and is not the placeholder; sessions with the same key
\* have the same nickname.
C10_EverySessionNamedFromPool ==
  /\ Len(sessionsWithNames) = Len(sessions.sessions)
  /\ \A i \in 1..Len(sessionsWithNames) :
       /\ sessionsWithNames[i].key = sessions.sessions[i].key
       /\ sessionsWithNames[i].nickname \in Pool
       /\ sessionsWithNames[i].nickname # Agent
       /\ \A k \in 1..Len(sessionsWithNames) :
            sessionsWithNames[k].key = sessionsWithNames[i].key =>
              sessionsWithNames[k].nickname = sessionsWithNames[i].nickname

C10_Witness ==
  /\ Len(sessionsWithNames) = MaxSessions
  /\ \A i \in 1..Len(sessionsWithNames) :
       guessNickname(sessions.sessions[i]) = NoNick
  /\ \E i, k \in 1..Len(sessionsWithNames) :
       /\ sessionsWithNames[i].key # sessionsWithNames[k].key
       /\ sessionsWithNames[i].nickname = sessionsWithNames[k].nickname

\* ---------------------------------------------- explicit names and recency
\* Sessions the gateway may report at position i, each under its own key:
\* the unnamed ones of SessionAt, the ones named in the label or in the
\* session id, and one that names Scout in its display name and Pulse in
\* its label and is the most recently updated.
BindShapes == {"plain", "timed", "named", "two"}
BindAt(i, shape) ==
  IF shape = "two"
    THEN Session(<<"k">> \o ToHex(i), <<"S", "c", "o", "u", "t">>,
                 <<"p", "u", "l", "s", "e">>, <<"s">> \o ToHex(i), 9)
    ELSE SessionAt(i, shape)

\* sessions a (label "Orbit handles X", updated at 100) and b (label
\* "unlabeled", updated at 200)
ScenarioSessions ==
  << Session(<<"a">>, <<>>,
             <<"O", "r", "b", "i", "t", " ", "h", "a", "n", "d", "l", "e",
               "s", " ", "X">>, <<>>, 100),
     Session(<<"b">>, <<>>,
             <<"u", "n", "l", "a", "b", "e", "l", "e", "d">>, <<>>, 200) >>

BindLists ==
  {ScenarioSessions} \cup
  UNION {{[i \in 1..n |-> BindAt(i, f[i])] : f \in [1..n -> BindShapes]} :
           n \in 0..MaxNamed}

InitBind ==
  /\ InitCells
  /\ lsTasks = Stored("absent", <<>>)
  /\ lsLeads = StoredLeads("absent", <<>>)
  /\ missions = <<>>
  /\ gateway \in BindLists

NextBind == Mount \/ SessionsArrive

SpecBind == InitBind /\ [][NextBind]_vars

\* a pool name occurs in one of the session's three texts
Mentions(s, n) ==
  \E f \in {s.displayName, s.label, s.sessionId} :
    Includes(ToLowerCase(f), ToLowerCase(AGENT_NICKNAMES[n]))

IsNamed(s) == \E n \in 1..Len(AGENT_NICKNAMES) : Mentions(s, n)

FirstIdentity(s) ==
  AGENT_NICKNAMES[CHOOSE n \in 1..Len(AGENT_NICKNAMES) :
                    /\ Mentions(s, n)
                    /\ \A m \in 1..Len(AGENT_NICKNAMES) : Mentions(s, m) => n <= m]

RecencyTime(s) == IF s.updatedAt = NoTime THEN 0 ELSE s.updatedAt

\* how many unnamed sessions of the list the recency order puts before the
\* session at position i
UnnamedBefore(ss, i) ==
  Cardinality({j \in 1..Len(ss) :
                 /\ ~IsNamed(ss[j])
                 /\ \/ RecencyTime(ss[j]) > RecencyTime(ss[i])
                    \/ RecencyTime(ss[j]) = RecencyTime(ss[i]) /\ j < i})

\* C12 as stated: a session without a name never gets an identity that a
\* named session of the list has, and for the sessions a (label "Orbit
\* handles X", updated at 100) and b (label "unlabeled", updated at 200) the
\* binding is a: Orbit, b: Forge.
C12_FallbackAvoidsClaimed ==
  /\ \A i, j \in 1..Len(sessionsWithNames) :
       (IsNamed(sessions.sessions[i]) /\ ~IsNamed(sessions.sessions[j])) =>
         sessionsWithNames[i].nickname # sessionsWithNames[j].nickname
  /\ sessions.sessions = ScenarioSessions =>
       /\ sessionsWithNames[1].nickname = AGENT_NICKNAMES[1]
       /\ sessionsWithNames[2].nickname = AGENT_NICKNAMES[2]

\* C12 amended: the recency fallback gives the unnamed sessions, in
\* descending order of updatedAt, the pool names from the first one on,
\* counting the unnamed sessions only and whether or not a named session has
\* the name; for the sessions a and b the binding is a: Orbit, b: Orbit.
C12_FallbackCountsUnnamedOnly ==
  /\ \A i \in 1..Len(sessionsWithNames) :
       ~IsNamed(sessions.sessions[i]) =>
         sessionsWithNames[i].nickname =
           AGENT_NICKNAMES[(UnnamedBefore(sessions.sessions, i)
                              % Len(AGENT_NICKNAMES)) + 1]
  /\ sessions.sessions = ScenarioSessions =>
       /\ sessionsWithNames[1].nickname = AGENT_NICKNAMES[1]
       /\ sessionsWithNames[2].nickname = AGENT_NICKNAMES[1]

C12_Witness ==
  /\ sessions.sessions = ScenarioSessions
  /\ Len(sessionsWithNames) = 2
  /\ sessionsWithNames[1].key = <<"a">>
  /\ sessionsWithNames[2].key = <<"b">>
  /\ sessionsWithNames[2].nickname = sessionsWithNames[1].nickname

\* the categories in the order of their rules
Categories == <<"tools", "messages", "decisions", "docs", "status", "other">>

\* which of the six rules an event of this kind and tool reference matches
RuleHolds(ev, r) ==
  LET k == ToLowerCase(ev.kind)
  IN CASE r = 1 -> ev.tool # NoTool \/ k \in {<<"t", "o", "o", "l">>, <<"t", "o", "o", "l", "_", "c", "a", "l", "l">>}
       [] r = 2 -> k = <<"m", "e", "s", "s", "a", "g", "e">>
       [] r = 3 -> Includes(k, <<"d", "e", "c", "i", "s", "i", "o", "n">>)
       [] r = 4 -> Includes(k, <<"d", "o", "c">>)
       [] r = 5 -> \/ k \in {<<"s", "e", "s", "s", "i", "o", "n">>, <<"s", "t", "a", "t", "u", "s">>}
                   \/ EndsWith(k, <<"_", "c", "h", "a", "n", "g", "e">>)
                   \/ StartsWith(k, <<"m", "o", "d", "e", "l", "_">>)
                   \/ StartsWith(k, <<"t", "h", "i", "n", "k", "i", "n", "g", "_">>)
       [] OTHER -> TRUE

FirstRule(ev) ==
  CHOOSE r \in 1..6 : RuleHolds(ev, r) /\ \A q \in 1..(r - 1) : ~RuleHolds(ev, q)

\* C13: classifyEvent gives every event of the feed the category of the
\* first rule, in the order tools, messages, decisions, docs, status, other,
\* that its lower-cased kind and its tool reference match; an event with a
\* tool reference and kind decision is classified tools.
C13_FirstMatchingRuleWins ==
  \A i \in 1..Len(events) :
    /\ classifyEvent(events[i]) = Categories[FirstRule(events[i])]
    /\ (events[i].tool # NoTool /\ events[i].kind = <<"d", "e", "c", "i", "s", "i", "o", "n">>) =>
         classifyEvent(events[i]) = "tools"
    /\ feedFilter # "all" =>
         ( classifyEvent(events[i]) = feedFilter <=>
             \E j \in 1..Len(filteredEvents) : filteredEvents[j] = events[i] )

C13_Witness ==
  /\ feedFilter = "tools"
  /\ Len(events) = MaxFeed
  /\ Len(filteredEvents) = 1
  /\ filteredEvents[1].tool # NoTool
  /\ filteredEvents[1].kind = <<"d", "e", "c", "i", "s", "i", "o", "n">>
  /\ \E i \in 1..Len(events) : RuleHolds(events[i], 3) /\ RuleHolds(events[i], 4)
                                 /\ events[i].tool = NoTool

\* the kinds tool_call, message, status
ScenarioKinds ==
  << <<"t", "o", "o", "l", "_", "c", "a", "l", "l">>,
     <<"m", "e", "s", "s", "a", "g", "e">>,
     <<"s", "t", "a", "t", "u", "s">> >>

\* the events of the list that classifyEvent maps to the category
InCategory(c) == {i \in 1..Len(events) : classifyEvent(events[i]) = c}

\* C14: feedCounts.all is the number of events, and each of tools, messages,
\* decisions, docs, status is the number of events classifyEvent maps to it,
\* the events classified other being counted in all only; for the kinds
\* tool_call, message, status, none with a tool reference, the counts are
\* all 3, tools 1, messages 1, status 1, decisions 0, docs 0.
C14_FeedCountsPerCategory ==
  /\ feedCounts["all"] = Len(events)
  /\ \A c \in FeedFilters \ {"all"} :
       feedCounts[c] = Cardinality(InCategory(c))
  /\ DOMAIN feedCounts = FeedFilters
  /\ ( /\ [i \in 1..Len(events) |-> events[i].kind] = ScenarioKinds
       /\ \A i \in 1..Len(events) : events[i].tool = NoTool ) =>
       feedCounts = [all |-> 3, tools |-> 1, messages |-> 1, status |-> 1,
                     decisions |-> 0, docs |-> 0]

C14_Witness ==
  /\ [i \in 1..Len(events) |-> events[i].kind] = ScenarioKinds
  /\ \A i \in 1..Len(events) : events[i].tool = NoTool
  /\ feedCounts["all"] = 3 /\ feedCounts["status"] = 1
  /\ feedFilter = "status"
  /\ Len(filteredEvents) = 1

\* C15: taskStageToMissionStatus maps each of the five stages to one of the
\* five statuses, missionStatusToTaskStage each status to a stage, and each
\* undoes the other; a mission row updated to the status of a stage maps
\* back to that stage, and every task a missions fetch shows has the stage
\* whose status its row has.
C15_StageStatusBijection ==
  /\ \A s \in StageSet :
       /\ taskStageToMissionStatus(s) \in StatusSet
       /\ missionStatusToTaskStage(taskStageToMissionStatus(s)) = s
  /\ \A x \in StatusSet :
       /\ missionStatusToTaskStage(x) \in StageSet
       /\ taskStageToMissionStatus(missionStatusToTaskStage(x)) = x
  /\ Cardinality(StageSet) = 5 /\ Cardinality(StatusSet) = 5
  /\ \A s \in StageSet, r \in 1..Len(missions) :
       missionStatusToTaskStage(
         UpdateRows(missions, missions[r].id,
                    taskStageToMissionStatus(s))[r].status) = s
  /\ (last.op = "missions.fetched" /\ fx = <<"setTasks">>) =>
       \A i \in 1..Len(tasks) :
         taskStageToMissionStatus(tasks[i].stage) = last.p.rows[i].status

C15_Witness ==
  \E k \in 1..Len(calls), r \in 1..Len(missions) :
    /\ calls[k].pc = "update" /\ calls[k].st = "ok"
    /\ missions[r].id = calls[k].id
    /\ calls[k].origStage = "assigned"
    /\ missions[r].status = "DONE"
    /\ StageOf(tasks, calls[k].id) = {"done"}

\* ------------------------------------------------- the board without a workspace
\* What "ov.tasks.v1" may hold when the page is opened: nothing, a text
\* JSON.parse throws on, or a list an earlier page wrote.
LocalStoredInits == StoredInits \cup { Stored("corrupt", <<>>) }

InitLocal ==
  /\ InitCells
  /\ lsTasks \in LocalStoredInits
  /\ lsLeads = StoredLeads("absent", <<>>)
  /\ missions = <<>>
  /\ gateway = <<>>

\* the bootstrap when no workspace resolves: no user, a failed profile
\* lookup, or a profile without workspace
BootstrapNoWorkspace ==
  \/ \E b \in BOOLEAN : BootUser(b)
  \/ \E o \in ErrorStates \cup {"noWorkspace"} : BootProfile(o)

NextLocal ==
  \/ Mount \/ Unmount \/ Restart \/ ClockTick \/ BootstrapNoWorkspace
  \/ UserTypes \/ UserAdds \/ UserMoves

SpecLocal == InitLocal /\ [][NextLocal]_vars

\* ---------------------------------------------------------------------- C16
MountStep == phase = "init" /\ phase' = "mounted"

LeavesPage == phase' # phase /\ phase' \in {"unmounted", "init"}

BootstrapStep == phase' = phase /\ boot'.pc # boot.pc

LeadStoredInits ==
  { StoredLeads("absent", <<>>),
    StoredLeads("corrupt", <<>>),
    StoredLeads("ok", << Lead(<<"5", "1">>, <<"p">>, <<"q">>, "meeting", 1) >>) }

InitLeads ==
  /\ InitCells
  /\ lsTasks \in LocalStoredInits
  /\ lsLeads \in LeadStoredInits
  /\ missions = <<>>
  /\ gateway = <<>>

NextLeads ==
  \/ Mount \/ Unmount \/ Restart \/ ClockTick
  \/ UserTypesLead \/ UserAddsLead \/ UserMovesLead

SpecLeads == InitLeads /\ [][NextLeads]_vars

\* ---------------------------------------------------------------------- C17
Unreadable == {"absent", "corrupt"}

\* C17 as stated: a missing or unparseable snapshot gives the empty list
\* after the load, for the leads and for the tasks alike.
C17_MissingOrCorruptIsEmpty ==
  [][MountStep =>
       /\ lsLeads.kind \in Unreadable => leads' = <<>>
       /\ lsTasks.kind \in Unreadable => tasks' = <<>>]_vars

\* C17: startup never fails on a missing or unparseable snapshot: the mount
\* can always be taken and reports no error.  The leads are the empty list
\* after the load in both cases, the tasks are the empty list after an
\* unparseable snapshot, and after a missing one they are the three seeded
\* tasks (in_progress, assigned, in_progress, stamped with the time of the
\* load, under ids of their own).
C17_MissingTasksAreSeeded ==
  /\ [](phase = "init" => ENABLED Mount)
  /\ [][MountStep =>
          /\ dbError' = dbError
          /\ lsLeads.kind \in Unreadable => leads' = <<>>
          /\ lsTasks.kind = "corrupt" => tasks' = <<>>
          /\ lsTasks.kind = "absent" =>
               /\ Len(tasks') = 3
               /\ tasks'[1].stage = "in_progress"
               /\ tasks'[2].stage = "assigned"
               /\ tasks'[3].stage = "in_progress"
               /\ \A i \in 1..3 : tasks'[i].updatedAt = now /\ tasks'[i].id # <<>>
               /\ \A i, j \in 1..3 : tasks'[i].id = tasks'[j].id => i = j]_vars

\* the page was opened on no tasks snapshot and no readable leads snapshot
C17_Witness ==
  /\ last.op = "mount"
  /\ Len(tasks) = 3 /\ tasks[2].stage = "assigned"
  /\ leads = <<>>
  /\ lsTasks = [kind |-> "ok", list |-> Stringify(tasks)]
  /\ lsLeads = [kind |-> "ok", list |-> <<>>]

\* ---------------------------------------------------------------------- C18
LeadStep == last'.op \in {"addLead", "moveLead"} /\ now' = now /\ phase' = phase

\* C18: addLead and moveLead issue no remote call and change nothing but the
\* leads (addLead also the lead form): tasks, events, sessions, dbError, the
\* task form, the requests in flight, the remote table and the tasks
\* snapshot are as they were, and the leads snapshot is the JSON text of the
\* new leads.  addLead with an empty name or an empty company (after trim)
\* changes neither the leads, nor the form, nor the snapshot.
C18_LeadMutationsAreLocal ==
  [][LeadStep =>
       /\ UNCHANGED <<tasks, newTask, lsTasks, events, eventsError, sessions,
                      sessionsWithNames, selectedKey, statusText, statusError,
                      dbError, profileId, workspaceId, boot, calls, polls,
                      timers, missions, gateway, feedFilter>>
       /\ \A k \in 1..Len(fx') : fx'[k] \in {"setLeads", "setNewLead"}
       /\ lsLeads' = [kind |-> "ok", list |-> StringifyLeads(leads')]
       /\ last'.op = "moveLead" => newLead' = newLead
       /\ (/\ last'.op = "addLead"
           /\ \/ Trim(newLead.name) = <<>>
              \/ Trim(newLead.company) = <<>>) =>
            UNCHANGED <<leads, newLead, lsLeads>>]_vars

\* addLead has put a second lead before one that was moved to won
C18_Witness ==
  /\ last.op = "addLead"
  /\ fx = <<"setLeads", "setNewLead">>
  /\ Len(leads) = 2
  /\ leads[1].stage = "lead" /\ leads[1].name = <<"n">>
  /\ leads[2].stage = "won"
  /\ newLead = [name |-> <<>>, company |-> <<>>]
  /\ lsLeads = [kind |-> "ok", list |-> StringifyLeads(leads)]

\* ------------------------------------------- every writer of the task list
\* one title typed, and one value of Math.random() in the ids
UserTypesTitle == SetTitle(<< "a", " " >>)

UserAddsTitle == AddTask(<< "8" >>)

AddContinuesTitle == \E k \in 1..MaxCalls : AddTaskInserted(k, << "8" >>)

\* load and seed, the missions fetch, moveTask with its rollback, addTask
NextSync ==
  \/ Mount \/ Bootstrap
  \/ UserMoves \/ StoreUpdates \/ MoveContinues \/ MoveAudits
  \/ UserTypesTitle \/ UserAddsTitle \/ StoreInserts \/ AddContinuesTitle
  \/ AddAudits \/ StoreSelects \/ FetchContinues

SpecSync == Init /\ [][NextSync]_vars

C20_WritesReplaceWholeList ==
  [][tasks' # tasks =>
       \/ last'.op = "mount"
       \/ /\ last'.op = "missions.fetched"
          /\ tasks' = Loaded(last'.p.rows)
       \/ /\ last'.op = "moveTask.failed"
          /\ \E k \in 1..Len(calls) : tasks' = calls[k].prevTasks
       \/ /\ last'.op = "moveTask"
          /\ tasks' = MoveInList(<<>>, last'.c.id, last'.c.stage, now)
       \/ /\ last'.op \in {"addTask", "addTask.inserted", "addTask.failed"}
          /\ tasks' = << tasks'[1] >>]_vars

\* ---------------------------------------------------------------------- C21
\* C21 as stated: a request of a polling loop that has not resolved blocks
\* the loop, so no loop has more than one request outstanding.
C21_StalledRequestBlocksLoop ==
  \A l \in Loops : InFlight(l) <= 1

\* C21: a request that has not resolved does not block its loop.  The
\* interval of the loop stays set while the request is outstanding, and the
\* next firing issues a further fetch of the same loop (up to MaxInFlight
\* outstanding requests are followed); a firing leaves the requests already
\* outstanding as they are.
C21_IntervalFiresWhileOutstanding ==
  /\ [](\A l \in Loops :
          (timers[l] /\ InFlight(l) >= 1 /\ InFlight(l) < MaxInFlight) =>
            CASE l = "sessions" -> ENABLED Tick
              [] l = "status" -> ENABLED TickStatus
              [] l = "events" -> ENABLED TickMissionEvents)
  /\ [][last'.op \in {"tick", "tickStatus", "tickMissionEvents"} =>
          \A l \in Loops :
            /\ Len(polls'[l]) >= Len(polls[l])
            /\ SubSeq(polls'[l], 1, Len(polls[l])) = polls[l]
            /\ timers'[l] = timers[l]]_vars

\* every loop has issued a second fetch while its first is outstanding
C21_Witness ==
  /\ phase = "mounted"
  /\ \A l \in Loops :
       /\ timers[l]
       /\ InFlight(l) = 2
       /\ \A i \in 1..2 : polls[l][i].alive

\* ------------------------------------------ responses that overtake each other
\* the sessions loop with a gateway that answers a request some time before
\* the response arrives and whose session list changes in between, and the
\* events loop
NextRace ==
  \/ Mount \/ Bootstrap
  \/ Tick \/ GatewayAnswers \/ SessionsArrive \/ GatewayChanges
  \/ TickMissionEvents \/ EventsArrive

SpecRace == InitPoll /\ [][NextRace]_vars

\* ---------------------------------------------------------------------- C22
Shortens(l) == Len(polls'[l]) < Len(polls[l])

\* C22: within a loop nothing orders the responses.  Every response of a
\* live sessions request that arrives with ok is committed: sessions is then
\* the list that response carries, whether or not the response of a request
\* issued later was committed before; every response of a live events
\* request is committed likewise (the mapped rows, or the empty list on an
\* error).  So the value held is that of the response that resolved last.
C22_LastResolvedWins ==
  [][/\ (/\ last'.op = "sessions.fetched" /\ Shortens("sessions")
         /\ last'.p.alive /\ last'.p.st = "ok") =>
          /\ sessions' = [isNull |-> FALSE, sessions |-> last'.p.rows]
          /\ sessionsWithNames' = withNicknames(last'.p.rows)
     /\ (/\ last'.op = "events.fetched" /\ Shortens("events")
         /\ last'.p.alive) =>
          events' = IF last'.p.st = "ok" THEN MappedEvents(last'.p.rows)
                    ELSE <<>>]_vars

\* the response of a sessions request was committed after the response of a
\* request issued later, and sessions holds its list, which the gateway has
\* replaced since
C22_Witness ==
  /\ last.op = "sessions.fetched"
  /\ last.p.passed /\ last.p.alive /\ last.p.st = "ok"
  /\ sessions = [isNull |-> FALSE, sessions |-> last.p.rows]
  /\ sessions.sessions # gateway
  /\ polls["sessions"] = <<>>

\* ---------------------------------------------------------------------- C23
\* C23: in every reachable state a non-empty eventsError implies an empty
\* event list: the feed never shows an error together with the events of
\* another response.
C23_ErrorImpliesNoEvents == eventsError # "" => events = <<>>

\* ------------------------------------------------ recency round robin
UnnamedOf(ss) == {i \in 1..Len(ss) : ~IsNamed(ss[i])}

OwnKeys(ss) == \A i, j \in 1..Len(ss) : ss[i].key = ss[j].key => i = j

WaitingText == "Waiting for workspace..."

\* C25: from the first render on, as long as no workspace id is resolved the
\* event list is empty, eventsError is the waiting text, no events timer is
\* set and no events request is in flight; the step that resolves the
\* workspace id makes the first events tick, which clears the waiting text,
\* issues the first select for that workspace and sets the timer.
C25_WaitsForWorkspace ==
  /\ []((phase # "init" /\ workspaceId = Null) =>
          /\ events = <<>>
          /\ eventsError = WaitingText
          /\ ~timers["events"]
          /\ InFlight("events") = 0)
  /\ [][(workspaceId = Null /\ workspaceId' # Null) =>
          /\ eventsError' = ""
          /\ events' = <<>>
          /\ timers'["events"]
          /\ InFlight("events")' = 1
          /\ polls'["events"][1].ws = workspaceId'
          /\ polls'["events"][1].alive]_vars

C25_Witness ==
  /\ last.op = "bootstrap.profile"
  /\ workspaceId = WS
  /\ eventsError = ""
  /\ events = <<>>
  /\ timers["events"]
  /\ InFlight("events") = 1
  /\ sessions.isNull = FALSE

\* ------------------------------------------------- automatic selection
\* C26: a response of the session-list poll changes selectedKey only when no
\* session is selected at that moment; once a session is selected, by the
\* poll or by the user, no later response of the poll changes selectedKey.
C26_PollKeepsSelection ==
  [][(last'.op = "sessions.fetched" /\ selectedKey # NoKey) =>
       selectedKey' = selectedKey]_vars

\* ------------------------------------------------ overlapping moveTask calls
\* the stage buttons of the first positions of the board, pressed while
\* earlier calls are still in flight
UserMovesOverlapping ==
  \E i \in 1..MaxOverlap, s \in MoveStages : MoveTaskAmong(i, s, MaxOverlap)

OverlapUpdates == \E k \in 1..MaxOverlap, o \in Outcomes : ServeUpdate(k, o)

OverlapContinues == \E k \in 1..MaxOverlap : MoveTaskUpdated(k)

OverlapAudits == \E k \in 1..MaxOverlap, o \in Outcomes : MoveTaskAudited(k, o)

\* nothing stored, a workspace with two missions
InitOverlap ==
  /\ InitCells
  /\ lsTasks = Stored("absent", <<>>)
  /\ lsLeads = StoredLeads("absent", <<>>)
  /\ missions = << Row(<<"m", "1">>, <<"R">>, "ASSIGNED", NoTime, 2),
                   Row(<<"m", "2">>, <<"S">>, "INBOX", NoTime, 1) >>
  /\ gateway = <<>>

NextOverlap ==
  \/ Mount \/ Bootstrap \/ StoreSelects \/ FetchContinues
  \/ UserMovesOverlapping \/ OverlapUpdates \/ OverlapContinues
  \/ OverlapAudits

SpecOverlap == InitOverlap /\ [][NextOverlap]_vars

\* every task that has a remote row is in the stage of the row's status
AgreesWithRemote ==
  \A i \in 1..Len(tasks), r \in 1..Len(missions) :
    tasks[i].id = missions[r].id =>
      tasks[i].stage = missionStatusToTaskStage(missions[r].status)

\* C27: with the workspace set and the missions rows changed by moveTask
\* updates only, whenever no moveTask call is in flight every task is in the
\* stage of its remote row's status, and the rollback of a failed call
\* leaves every task but the call's own as it was.
C27_SettledMovesAgree ==
  /\ []((workspaceId # Null /\ calls = <<>> /\ polls["missions"] = <<>>) =>
          AgreesWithRemote)
  /\ [][last'.op = "moveTask.failed" =>
          \A i \in 1..Len(tasks) :
            tasks[i].id # last'.c.id =>
              /\ i <= Len(tasks')
              /\ tasks'[i] = tasks[i]]_vars

\* --------------------------------------------------- one task per addTask
\* the step puts one task at the head of the list and keeps the others
AddsOne == /\ Len(tasks') = Len(tasks) + 1
           /\ \A i \in 1..Len(tasks) : tasks'[i + 1] = tasks[i]

\* the remote store answers a request: a step of the store, not of a handler
Served ==
  /\ Len(calls') = Len(calls)
  /\ \E k \in 1..Len(calls) :
       /\ calls[k].st = "sent"
       /\ calls'[k].st # "sent"
       /\ calls'[k].pc = calls[k].pc

\* a step of the handler or continuation that leaves op in last
StepOf(ops) == last'.op \in ops /\ now' = now /\ ~Served

\* the addTask calls waiting at pc
Waiting(cs, pc) ==
  Cardinality({k \in 1..Len(cs) : cs[k].fn = "addTask" /\ cs[k].pc = pc})

\* C28: an addTask call with an empty trimmed title changes neither the task
\* list nor the form nor dbError and issues no remote call; a call with a
\* non-empty trimmed title adds exactly one task: either at once (local
\* path, no request issued) or, on the remote path, none at the call, one
\* when the missions insert has answered (the returned row or the local
\* fallback) and none when the audit insert has answered, whatever the two
\* answers are.
C28_AddsExactlyOne ==
  /\ [][StepOf({"addTask"}) =>
          IF last'.c.title = <<>>
            THEN /\ tasks' = tasks /\ lsTasks' = lsTasks
                 /\ newTask' = newTask /\ dbError' = dbError
                 /\ calls' = calls /\ missions' = missions
                 /\ fx' = <<>>
            ELSE \/ /\ AddsOne
                    /\ calls' = calls
                 \/ /\ tasks' = tasks
                    /\ Len(calls') = Len(calls) + 1
                    /\ Waiting(calls', "insert") = Waiting(calls, "insert") + 1
                    /\ fx' = <<"missions.insert">>
                 \/ UNCHANGED vars]_vars
  /\ [][StepOf({"addTask.inserted", "addTask.failed"}) =>
          /\ AddsOne
          /\ Waiting(calls', "insert") = Waiting(calls, "insert") - 1
          /\ Waiting(calls', "created") =
               Waiting(calls, "created")
                 + (IF last'.op = "addTask.inserted" THEN 1 ELSE 0)]_vars
  /\ [][StepOf({"addTask.audited"}) =>
          /\ tasks' = tasks
          /\ Waiting(calls', "insert") = Waiting(calls, "insert")
          /\ Waiting(calls', "created") = Waiting(calls, "created") - 1]_vars

C28_Witness ==
  /\ last.op = "addTask.audited"
  /\ last.c.st \in ErrorStates
  /\ calls = <<>>
  /\ Cardinality({i \in 1..Len(tasks) : tasks[i].id = last.c.id}) = 1
  /\ tasks[1].id = last.c.id
  /\ \E r \in 1..Len(missions) : missions[r].id = last.c.id

\* ------------------------------------------------- the actor of an audit
\* the bootstrap, moveTask and the missions fetch over mounts, unmounts and
\* reloads of the page
NextActor ==
  \/ Mount \/ Unmount \/ Restart \/ Bootstrap
  \/ UserMoves \/ StoreUpdates \/ MoveContinues \/ MoveAudits
  \/ StoreSelects \/ FetchContinues

SpecActor == InitRemote /\ [][NextActor]_vars

\* C29: whenever workspaceId is set profileId is set as well, so a moveTask
\* call that goes to the remote store has read a user id, and the audit
\* event it inserts has that id as its actor.
C29_WorkspaceImpliesProfile ==
  /\ workspaceId # Null => profileId # Null
  /\ \A k \in 1..Len(calls) :
       calls[k].fn = "moveTask" =>
         calls[k].ws # Null /\ calls[k].profile # Null
  /\ (last.op = "moveTask.updated" /\ "events.insert" \in Made) =>
       last.c.profile # Null

C29_Witness ==
  /\ last.op = "moveTask.audited"
  /\ last.c.ws = WS
  /\ last.c.profile = USER
  /\ workspaceId = WS
  /\ profileId = USER

\* ------------------------------------------------------------- AuthGate
\* The gate of the page (lines 69-78 render DashboardClient as its child).
\* line 38: the allow-list address, trimmed and in lower case; an unset or
\* blank value is no allow-list
AllowedEmail == ToLowerCase(Trim(gate.env))

\* lines 56-66: the children are rendered when ready and authed
Shown == gate.path = "/" /\ gate.ready /\ gate.authed

\* a run of the second effect (lines 35-54) for a render with the given
\* cells: nothing before ready, else the async function up to its await
GuardRuns(runs, ready, authed) ==
  IF ready THEN Append(runs, [pc |-> "getUser", authed |-> authed])
  ELSE runs

\* setAuthed and setReady of lines 20-21 and 25-26, and the second effect
\* run again when one of its dependencies changed
Committed(g, hasSession) ==
  [g EXCEPT !.authed = hasSession,
            !.ready = TRUE,
            !.guards = IF g.ready /\ g.authed = hasSession THEN @
                       ELSE GuardRuns(@, TRUE, hasSession)]

\* lines 17-22: getSession resolves
GateSessionRead ==
  /\ gate.path = "/" /\ gate.check = "getSession"
  /\ Len(gate.guards) < MaxGuards
  /\ gate' = [Committed(gate, gate.session # NoEmail) EXCEPT !.check = "done"]
  /\ UNCHANGED <<phase, now, taskVars, pollVars, last, fx>>

\* lines 24-27: the auth client reports its session to the subscriber
GateAuthEvent ==
  /\ gate.path = "/"
  /\ Len(gate.guards) < MaxGuards
  /\ gate' = Committed(gate, gate.session # NoEmail)
  /\ UNCHANGED <<phase, now, taskVars, pollVars, last, fx>>

\* lines 42-52: getUser resolves for the run at position g
GateUserRead(g) ==
  /\ gate.path = "/"
  /\ g \in 1..Len(gate.guards)
  /\ gate.guards[g].pc = "getUser"
  /\ gate' =
       IF /\ AllowedEmail # <<>>
          /\ gate.session # NoEmail
          /\ ToLowerCase(gate.session) # AllowedEmail
         THEN [gate EXCEPT !.guards[g].pc = "signOut"]
         ELSE IF ~gate.guards[g].authed
                THEN [gate EXCEPT !.path = "/login", !.guards = <<>>,
                                  !.check = "done"]
                ELSE [gate EXCEPT !.guards = RemoveAt(@, g)]
  /\ UNCHANGED <<phase, now, taskVars, pollVars, last, fx>>

\* line 45: signOut ends the session and the subscriber is told
GateSignedOut(g) ==
  /\ gate.path = "/"
  /\ g \in 1..Len(gate.guards)
  /\ gate.guards[g].pc = "signOut"
  /\ gate' = [Committed([gate EXCEPT !.guards[g].pc = "assign"], FALSE)
                EXCEPT !.session = NoEmail]
  /\ UNCHANGED <<phase, now, taskVars, pollVars, last, fx>>

\* line 46: window.location.assign('/login') leaves the page
GateAssigns(g) ==
  /\ gate.path = "/"
  /\ g \in 1..Len(gate.guards)
  /\ gate.guards[g].pc = "assign"
  /\ gate' = [gate EXCEPT !.path = "/login", !.guards = <<>>,
                          !.check = "done"]
  /\ UNCHANGED <<phase, now, taskVars, pollVars, last, fx>>

\* the users that may sign in: the allowed address in two spellings, another
GateUsers == { << "a" >>, << "A" >>, << "b" >> }

\* login page, lines 36-38: a password sign-in, then the page "/" is loaded
\* and the gate starts anew
LoginSignsIn(e) ==
  /\ gate.path = "/login"
  /\ gate' = Gate(FALSE, FALSE, "getSession", <<>>, e, gate.env, "/")
  /\ UNCHANGED <<phase, now, taskVars, pollVars, last, fx>>

\* lines 24-27: a sign-in or a sign-out in another tab of the browser is
\* reported to the subscriber
OtherTabSignsIn(e) ==
  /\ gate.path = "/"
  /\ gate.session # e
  /\ Len(gate.guards) < MaxGuards
  /\ gate' = [Committed(gate, TRUE) EXCEPT !.session = e]
  /\ UNCHANGED <<phase, now, taskVars, pollVars, last, fx>>

OtherTabSignsOut ==
  /\ gate.path = "/"
  /\ gate.session # NoEmail
  /\ Len(gate.guards) < MaxGuards
  /\ gate' = [Committed(gate, FALSE) EXCEPT !.session = NoEmail]
  /\ UNCHANGED <<phase, now, taskVars, pollVars, last, fx>>

OtherTab == OtherTabSignsOut \/ \E e \in GateUsers : OtherTabSignsIn(e)

GateGuards ==
  \E g \in 1..(MaxGuards + 1) :
    GateUserRead(g) \/ GateSignedOut(g) \/ GateAssigns(g)

UserSignsIn == \E e \in GateUsers : LoginSignsIn(e)

\* NEXT_PUBLIC_ALLOWED_EMAIL: unset, an address with a blank and in
\* capitals, another address
AllowedInputs == { <<>>, << " ", "A" >>, << "b" >> }

\* the page "/" is loaded with or without a session, with or without an
\* allow-list
InitGate ==
  /\ InitDashboard
  /\ lsTasks = Stored("absent", <<>>)
  /\ lsLeads = StoredLeads("absent", <<>>)
  /\ missions = <<>>
  /\ gateway = <<>>
  /\ gate \in {Gate(FALSE, FALSE, "getSession", <<>>, s, e, "/") :
                 s \in GateUsers \cup {NoEmail},
                 e \in AllowedInputs}

NextGate ==
  \/ GateSessionRead \/ GateAuthEvent \/ GateGuards \/ UserSignsIn
  \/ OtherTab

SpecGate == InitGate /\ [][NextGate]_vars

\* C30: the dashboard is rendered only when a session exists and, with an
\* allow-list address set, only when the signed-in user's address is that
\* address.
C30_DashboardOnlyForAllowed ==
  Shown =>
    /\ gate.session # NoEmail
    /\ AllowedEmail # <<>> => ToLowerCase(gate.session) = AllowedEmail

====
